---- MODULE Spec2Model ----
(***************************************************************************)
(* Model of the download orchestrator of condow_core:                      *)
(*   - ConcurrentDownloader::download (the dispatcher),                    *)
(*   - SequentialDownloader worker tasks with their DownloaderContext,     *)
(*   - the KillSwitch and the live context counter,                        *)
(*   - the unbounded result channel and the ChunkStream consumer.          *)
(* Worker tasks run on a multi-threaded runtime: every access to a shared  *)
(* atomic or to a channel is one step, steps of different tasks interleave.*)
(* Retries are disabled (Config::disable_retries), so an adapter error or  *)
(* panic reaches the worker unchanged.                                     *)
(***************************************************************************)
EXTENDS Integers, Sequences, FiniteSets, TLC

\* ------------------------------------------------------------------ bounds
MaxRangeStart == 1
MaxRangeLen == 3
MaxPartSize == 2
MaxConcurrency == 2
MaxBufLen == 2
\* How often per download the adapter departs from serving a range by
\* non-empty buffers: a failed or panicking fetch, a failed or panicking
\* byte stream, a wrong number of bytes, an empty buffer.
MaxAnomalies == 1
MaxAttempts == 2
MaxPlanStart == 2
MaxPlanLen == 8
MaxPlanPartSize == 4
MaxFaults == 2
MaxPollsAfterClose == 1
\* Config::buffer_size (any value >= 1 is valid)
BufferSize == 1
\* download_range: the offsets of the requested range and the size of the BLOB
MaxReqOffset == 2
MaxBlobSize == 2
\* a ChunkStream on its own: the items put on its channel, the offset and
\* length of a chunk, the bounds of its hint and the caller's buffer
MaxItems == 2
MaxChunkOffset == 2
MaxChunkLen == 2
MaxHint == 3
MaxCallerBuffer == 3

VARIABLES
    cfg,             \* [range_start, range_len, part_size, n_concurrent, mode]
    anomalies,       \* anomalies of the adapter so far
    first_fetch,     \* history: outcome of the first client.download call
                     \* and, unless it was served, the part it was for
    \* dispatcher (ConcurrentDownloader)
    disp_pc,         \* "start" | "loop" | "dropped"
    next_part,       \* position of ranges_stream
    range_request,   \* the request the dispatcher holds (part index)
    disp_counter,    \* ConcurrentDownloader.counter
    attempt,
    disp_result,     \* "none" | "ok" | "err"
    \* workers (SequentialDownloader task + DownloaderContext)
    pc,
    queue,           \* request channel of each worker
    receiver_alive,  \* request_receiver not yet dropped
    req,             \* part index being processed
    chunk_index,
    offset_in_range,
    bytes_received,
    completed,       \* DownloaderContext.completed
    err,             \* error about to be sent by send_err
    panicking,       \* std::thread::panicking() during the drop
    \* shared
    kill_switch,
    counter,         \* Arc<AtomicUsize> of live contexts
    results,         \* items pushed into the result channel, in order
    rx_state,        \* result receiver: "open" | "closed" | "dropped"
    \* ChunkStream and its consumer
    is_closed,
    is_fresh,
    bytes_hint,
    delivered,       \* what poll_next returned, in order
    n_read,          \* number of items of results taken by the receiver
    buffer,          \* into_vec buffer
    vec_result,      \* "pending" | "ok" | "err"
    \* probe events and history
    completed_events,
    failed_events,
    panic_detected,
    \* retry layer (ClientRetryWrapper)
    max_attempts,    \* retries allowed per call; 0: retries disabled
    attempts,        \* retries used for the part each worker processes
    resumed_at,      \* bytes of the part received when its stream was
                     \* resumed; -1: the stream is the one of the first fetch
    size_call,       \* the size call made before the download
    stream_pos,      \* blob offset of the next byte of the adapter's stream
    fetches,         \* history: adapter fetch calls made for the part
    last_outcome,    \* history: the adapter's latest answer to each worker
    exit_err,        \* history: the error each worker sent, if any
    cancelled,       \* history: the ChunkStream was dropped while a
                     \* context was still live
    \* download_range and the whole-stream methods of the ChunkStream
    request,         \* the range asked for, the size of the BLOB, the size
                     \* mode, and how far download_range has come
    whole_call,      \* the whole-stream method running on the ChunkStream,
                     \* the bytes it has written and the error it returned
    lap,             \* history: the workers the dispatcher has tried for
                     \* the request it holds, and its latest queue_full
    probe,           \* the part events the probe has received, counted per
                     \* part: part_started, chunk_completed, part_completed,
                     \* part_failed
    accepted,        \* history: the part requests each worker's queue has
                     \* accepted, in order
    \* the Downloader/DownloadersWatcher variant (machinery/downloaders.rs)
    is_failed,       \* DownloadersWatcher.is_failed of each worker's watcher
    \* DownloadSession
    session          \* the download operation called on the session and the
                     \* reporter it has handed to the download

vars == << cfg, disp_pc, next_part, range_request, disp_counter, attempt,
           disp_result, pc, queue, receiver_alive, req, chunk_index,
           offset_in_range, bytes_received, completed, err, panicking,
           kill_switch, counter, results, rx_state, is_closed, is_fresh,
           bytes_hint, delivered, n_read, buffer, vec_result,
           completed_events, failed_events, panic_detected, exit_err, cancelled,
           anomalies, first_fetch, max_attempts, attempts, resumed_at,
           stream_pos, fetches, last_outcome, size_call, request,
           whole_call, lap, probe, accepted, is_failed, session >>

dispVars == << disp_pc, next_part, range_request, disp_counter, attempt, disp_result, lap >>
partVars == << req, chunk_index, offset_in_range, bytes_received >>
consumerVars == << is_closed, is_fresh, bytes_hint, delivered, n_read, buffer, vec_result,
                  whole_call >>
eventVars == << completed_events, failed_events, panic_detected >>
retryVars == << max_attempts, attempts, resumed_at, stream_pos, fetches, last_outcome, size_call >>
adapterVars == << anomalies, first_fetch, retryVars >>

\* ------------------------------------------------------------ helpers
Min(a, b) == IF a < b THEN a ELSE b

Workers == 0 .. (cfg.n_concurrent - 1)

\* The content of the BLOB at an offset.
BlobByte(off) == (off * 7 + 3) % 256

BlobBytes(from, n) == [ i \in 1 .. n |-> BlobByte(from + i - 1) ]

\* --- Range planner (RangeStream::create): parts of [A, B]
RangeEnd == cfg.range_start + cfg.range_len - 1

NParts == (cfg.range_len + cfg.part_size - 1) \div cfg.part_size

PartStart(i) == cfg.range_start + i * cfg.part_size

\* A faulty variant of PartEndIncl: the last part is not cut at the end of
\* the range.
PartEndIncl_Unclamped(i) == cfg.range_start + (i + 1) * cfg.part_size - 1

PartEndIncl(i) == Min(cfg.range_start + (i + 1) * cfg.part_size - 1, RangeEnd)

PartLen(i) == PartEndIncl(i) - PartStart(i) + 1

\* A faulty variant of PartRangeOffset: the offset in the object, not in the range.
PartRangeOffset_InBlob(i) == cfg.range_start + i * cfg.part_size

PartRangeOffset(i) == i * cfg.part_size

\* --- errors (kind and message of a CondowError)
ErrAnother == [kind |-> "Other", msg |-> "another download task already failed"]
ErrPanic == [kind |-> "Other", msg |-> "download ended unexpectedly due to a panic"]
ErrUnexpected == [kind |-> "Other", msg |-> "download ended unexpectetly"]
ErrTooMany == [kind |-> "Other", msg |-> "received more bytes than expected"]
ErrWrongCount == [kind |-> "Other", msg |-> "received wrong number of bytes"]
ErrIo == [kind |-> "Io", msg |-> "stream failed"]
ErrFetch(k) == [kind |-> k, msg |-> "fetch failed"]
NoErr == [kind |-> "none", msg |-> ""]

\* The error kinds a fetch of the adapter fails with in the model.
FetchErrorKinds == {"Other"}

\* --- items of the result channel
ChunkItem(c) == [tag |-> "chunk", chunk |-> c, error |-> NoErr]
ErrItem(e) == [tag |-> "err", chunk |-> << >>, error |-> e]
Eos == [tag |-> "eos", chunk |-> << >>, error |-> NoErr]

\* The request queue of a worker: mpsc::channel(buffer_size) holds
\* buffer_size messages plus one per sender before try_send reports "full".
QueueCapacity == BufferSize + 1

\* UnboundedSender::unbounded_send succeeds iff the receiver is neither
\* closed nor dropped.
CanSend == rx_state = "open"

\* KillSwitch::is_pushed
is_pushed == kill_switch

\* --- probe (ProbeInternal): the events of the parts
\* The counts of a part no event was reported for.
NoEvents == [started |-> 0, chunks |-> 0, completed |-> 0, failed |-> 0]

\* The probe pr after one more event ev for part p.
Reported(pr, p, ev) ==
    [ q \in DOMAIN pr \cup {p} |->
        IF q = p
          THEN [ (IF p \in DOMAIN pr THEN pr[p] ELSE NoEvents) EXCEPT ![ev] = @ + 1 ]
          ELSE pr[q] ]

\* probe.part_started
part_started(pr, p) == Reported(pr, p, "started")

\* probe.chunk_completed
chunk_completed(pr, p) == Reported(pr, p, "chunks")

\* probe.part_completed
part_completed(pr, p) == Reported(pr, p, "completed")

\* probe.part_failed
part_failed(pr, p) == Reported(pr, p, "failed")

\* ------------------------------------------------------------ initial state
\* No client.download call was made yet.
NoFetch == [outcome |-> "none", part |-> 0]

\* No queue_full was reported.
NoReport == [made |-> FALSE, tried |-> {}, room |-> {}]

\* The dispatcher has tried no worker for the request it holds.
NoLap == [tried |-> {}, report |-> NoReport]

\* download_chunks was called with a resolved range, as the tests of
\* machinery do: download_range has nothing left to do.
NoRequest ==
    [ phase |-> "started",
      range |-> [kind |-> "resolved", a |-> 0, b |-> 0],
      blob_size |-> 0,
      get_size_mode |-> "Required",
      always_get_size |-> FALSE ]

\* No whole-stream method was called: the consumer polls the stream itself.
NoCall == [called |-> "none", loop |-> "none", bytes_written |-> 0, error |-> ""]

\* into_vec was called on the fresh stream, whose hint is exact: the loop
\* of write_buffer runs on a buffer of as many zeros.
IntoVecCall == [called |-> "into_vec", loop |-> "write_buffer", bytes_written |-> 0, error |-> ""]

\* The downloads of the model: one range, every part size and number of
\* workers up to the bounds.
\* InitDownload is the state after ConcurrentDownloader::new and
\* ChunkStream::new: every worker task is spawned and waits for requests,
\* every context is counted.
DownloadConfigs(modes, workers) ==
    [ range_start : {MaxRangeStart},
      range_len : {MaxRangeLen},
      part_size : 1 .. MaxPartSize,
      n_concurrent : workers,
      mode : modes ]

\* What every download starts from: no request was dispatched, no part is
\* in progress, nothing was sent, polled or reported.
InitCommon ==
    /\ attempts = [ w \in Workers |-> 0 ]
    /\ resumed_at = [ w \in Workers |-> -1 ]
    /\ stream_pos = [ w \in Workers |-> 0 ]
    /\ fetches = [ w \in Workers |-> 0 ]
    /\ last_outcome = [ w \in Workers |-> "none" ]
    /\ anomalies = 0
    /\ first_fetch = NoFetch
    /\ cancelled = FALSE
    /\ disp_pc = "start"
    /\ next_part = 0
    /\ range_request = 0
    /\ disp_counter = 0
    /\ attempt = 1
    /\ disp_result = "none"
    /\ lap = NoLap
    /\ queue = [ w \in Workers |-> << >> ]
    /\ receiver_alive = [ w \in Workers |-> TRUE ]
    /\ req = [ w \in Workers |-> 0 ]
    /\ chunk_index = [ w \in Workers |-> 0 ]
    /\ offset_in_range = [ w \in Workers |-> 0 ]
    /\ bytes_received = [ w \in Workers |-> 0 ]
    /\ completed = [ w \in Workers |-> FALSE ]
    /\ err = [ w \in Workers |-> NoErr ]
    /\ panicking = [ w \in Workers |-> FALSE ]
    /\ kill_switch = FALSE
    /\ is_fresh = TRUE
    /\ delivered = << >>
    /\ n_read = 0
    /\ vec_result = "pending"
    /\ completed_events = 0
    /\ failed_events = 0
    /\ panic_detected = 0
    /\ exit_err = [ w \in Workers |-> NoErr ]
    /\ probe = << >>
    /\ accepted = [ w \in Workers |-> << >> ]
    /\ is_failed = [ w \in Workers |-> FALSE ]
    /\ session = [op |-> "none", reporter |-> << >>]

InitDownload(configs, retries, size_pcs) ==
    /\ cfg \in configs
    /\ max_attempts \in retries
    /\ size_call \in [ pc : size_pcs, attempts : {0}, outcome : {"none"} ]
    /\ InitCommon
    /\ pc = [ w \in Workers |-> "recv" ]
    /\ counter = cfg.n_concurrent
    /\ results = << >>
    /\ rx_state = "open"
    /\ is_closed = FALSE
    /\ bytes_hint = [ lower |-> cfg.range_len, has_upper |-> TRUE, upper |-> cfg.range_len ]
    /\ buffer = IF cfg.mode = "into_vec" THEN [ i \in 1 .. cfg.range_len |-> 0 ] ELSE << >>
    /\ request = NoRequest
    /\ whole_call = IF cfg.mode = "into_vec" THEN IntoVecCall ELSE NoCall

\* The state after construction with retries disabled (disable_retries) and
\* no size call, the range being closed (GetSizeMode::Required).
InitWith(modes) == InitDownload(DownloadConfigs(modes, 1 .. MaxConcurrency), {0}, {"skipped"})

\* ------------------------------------------------------------ Kill Switch
\* Workers whose DownloaderContext has not begun to drop.
LiveWorkers == { w \in Workers : pc[w] \notin {"drop", "drop_send", "drop_dec", "drop_load", "done"} }

\* KillSwitch::push_the_button
push_the_button == kill_switch' = TRUE

\* ------------------------------------------------------------ worker task
\* A faulty variant of WorkerNext: the worker takes the request that was
\* enqueued last.
WorkerNext_TakesNewest(w) ==
    /\ pc[w] = "recv"
    /\ IF queue[w] # << >>
         THEN /\ req' = [req EXCEPT ![w] = queue[w][Len(queue[w])]]
              /\ queue' = [queue EXCEPT ![w] = SubSeq(queue[w], 1, Len(queue[w]) - 1)]
              /\ pc' = [pc EXCEPT ![w] = "check"]
              /\ UNCHANGED completed
         ELSE /\ disp_pc = "dropped"
              /\ completed' = [completed EXCEPT ![w] = TRUE]
              /\ pc' = [pc EXCEPT ![w] = "drop"]
              /\ UNCHANGED << req, queue >>
    /\ UNCHANGED << cfg, request, is_failed, session, probe, accepted, dispVars, receiver_alive, chunk_index, offset_in_range,
                    bytes_received, err, panicking, kill_switch, counter, results,
                    rx_state, consumerVars, eventVars, exit_err, cancelled, adapterVars >>

\* request_receiver.next().await: the next request, or the end of the loop
\* once the dispatcher has dropped the sender and the queue is drained.
\* The end of the loop runs mark_successful.
WorkerNext(w) ==
    /\ pc[w] = "recv"
    /\ IF queue[w] # << >>
         THEN /\ req' = [req EXCEPT ![w] = Head(queue[w])]
              /\ queue' = [queue EXCEPT ![w] = Tail(queue[w])]
              /\ pc' = [pc EXCEPT ![w] = "check"]
              /\ UNCHANGED completed
         ELSE /\ disp_pc = "dropped"
              /\ completed' = [completed EXCEPT ![w] = TRUE]
              /\ pc' = [pc EXCEPT ![w] = "drop"]
              /\ UNCHANGED << req, queue >>
    /\ UNCHANGED << cfg, request, is_failed, session, probe, accepted, dispVars, receiver_alive, chunk_index, offset_in_range,
                    bytes_received, err, panicking, kill_switch, counter, results,
                    rx_state, consumerVars, eventVars, exit_err, cancelled, adapterVars >>

\* A faulty variant of WorkerCheckKillSwitch: the Kill Switch is not looked at.
WorkerCheckKillSwitch_Ignore(w) ==
    /\ pc[w] = "check"
    /\ pc' = [pc EXCEPT ![w] = "fetch"]
    /\ UNCHANGED << cfg, request, is_failed, session, probe, accepted, dispVars, queue, receiver_alive, partVars, completed, err,
                    panicking, kill_switch, counter, results, rx_state,
                    consumerVars, eventVars, exit_err, cancelled, adapterVars >>

\* if context.kill_switch.is_pushed() { send_err("another ..."); return }
WorkerCheckKillSwitch(w) ==
    /\ pc[w] = "check"
    /\ IF is_pushed
         THEN /\ err' = [err EXCEPT ![w] = ErrAnother]
              /\ pc' = [pc EXCEPT ![w] = "send_err"]
         ELSE /\ pc' = [pc EXCEPT ![w] = "fetch"]
              /\ UNCHANGED err
    /\ UNCHANGED << cfg, request, is_failed, session, probe, accepted, dispVars, queue, receiver_alive, partVars, completed,
                    panicking, kill_switch, counter, results, rx_state,
                    consumerVars, eventVars, exit_err, cancelled, adapterVars >>

\* A faulty variant of WorkerFetch: the error of the adapter is replaced by
\* an error of kind Io.
WorkerFetch_ErrorAsIo(w) ==
    /\ pc[w] = "fetch"
    /\ UNCHANGED retryVars
    /\ \E outcome \in {"ok", "panic"} \cup FetchErrorKinds :
         /\ outcome # "ok" => anomalies < MaxAnomalies
         /\ anomalies' = IF outcome = "ok" THEN anomalies ELSE anomalies + 1
         /\ first_fetch' = IF first_fetch = NoFetch
                              THEN [outcome |-> outcome,
                                    part |-> IF outcome = "ok" THEN 0 ELSE req[w]]
                              ELSE first_fetch
         /\ probe' = IF outcome = "ok" THEN part_started(probe, req[w])
                      ELSE IF outcome = "panic" THEN probe
                      ELSE part_failed(probe, req[w])
         /\ IF outcome = "ok"
              THEN /\ pc' = [pc EXCEPT ![w] = "stream"]
                   /\ chunk_index' = [chunk_index EXCEPT ![w] = 0]
                   /\ offset_in_range' = [offset_in_range EXCEPT ![w] = 0]
                   /\ bytes_received' = [bytes_received EXCEPT ![w] = 0]
                   /\ UNCHANGED << err, panicking, receiver_alive >>
              ELSE IF outcome = "panic"
              THEN /\ pc' = [pc EXCEPT ![w] = "drop"]
                   /\ panicking' = [panicking EXCEPT ![w] = TRUE]
                   /\ receiver_alive' = [receiver_alive EXCEPT ![w] = FALSE]
                   /\ UNCHANGED << err, chunk_index, offset_in_range, bytes_received >>
              ELSE /\ pc' = [pc EXCEPT ![w] = "send_err"]
                   /\ err' = [err EXCEPT ![w] = ErrIo]
                   /\ UNCHANGED << panicking, receiver_alive, chunk_index,
                                   offset_in_range, bytes_received >>
    /\ UNCHANGED << cfg, request, is_failed, session, accepted, dispVars, queue, req, completed, kill_switch, counter,
                    results, rx_state, consumerVars, eventVars, exit_err,
                    cancelled >>

\* client.download(location, Range(blob_range)).await: the adapter answers
\* with a byte stream, with an error, or panics.
WorkerFetch(w) ==
    /\ pc[w] = "fetch"
    /\ UNCHANGED retryVars
    /\ \E outcome \in {"ok", "panic"} \cup FetchErrorKinds :
         /\ outcome # "ok" => anomalies < MaxAnomalies
         /\ anomalies' = IF outcome = "ok" THEN anomalies ELSE anomalies + 1
         /\ first_fetch' = IF first_fetch = NoFetch
                              THEN [outcome |-> outcome,
                                    part |-> IF outcome = "ok" THEN 0 ELSE req[w]]
                              ELSE first_fetch
         /\ probe' = IF outcome = "ok" THEN part_started(probe, req[w])
                      ELSE IF outcome = "panic" THEN probe
                      ELSE part_failed(probe, req[w])
         /\ IF outcome = "ok"
              THEN /\ pc' = [pc EXCEPT ![w] = "stream"]
                   /\ chunk_index' = [chunk_index EXCEPT ![w] = 0]
                   /\ offset_in_range' = [offset_in_range EXCEPT ![w] = 0]
                   /\ bytes_received' = [bytes_received EXCEPT ![w] = 0]
                   /\ UNCHANGED << err, panicking, receiver_alive >>
              ELSE IF outcome = "panic"
              THEN /\ pc' = [pc EXCEPT ![w] = "drop"]
                   /\ panicking' = [panicking EXCEPT ![w] = TRUE]
                   /\ receiver_alive' = [receiver_alive EXCEPT ![w] = FALSE]
                   /\ UNCHANGED << err, chunk_index, offset_in_range, bytes_received >>
              ELSE /\ pc' = [pc EXCEPT ![w] = "send_err"]
                   /\ err' = [err EXCEPT ![w] = ErrFetch(outcome)]
                   /\ UNCHANGED << panicking, receiver_alive, chunk_index,
                                   offset_in_range, bytes_received >>
    /\ UNCHANGED << cfg, request, is_failed, session, accepted, dispVars, queue, req, completed, kill_switch, counter,
                    results, rx_state, consumerVars, eventVars, exit_err,
                    cancelled >>

\* --- consume_and_dispatch_bytes
bytes_expected(w) == PartLen(req[w])

\* A faulty variant of MakeChunk: the chunk index is not the running one.
MakeChunk_IndexZero(w, n) ==
    [ part_index |-> req[w],
      chunk_index |-> 0,
      blob_offset |-> PartStart(req[w]) + offset_in_range[w],
      range_offset |-> PartRangeOffset(req[w]) + offset_in_range[w],
      bytes |-> BlobBytes(PartStart(req[w]) + bytes_received[w], n),
      bytes_left |-> bytes_expected(w) - (bytes_received[w] + n) ]

\* A faulty variant of MakeChunk: bytes_left is taken before the bytes of
\* the chunk are counted.
MakeChunk_BytesLeftBefore(w, n) ==
    [ part_index |-> req[w],
      chunk_index |-> chunk_index[w],
      blob_offset |-> PartStart(req[w]) + offset_in_range[w],
      range_offset |-> PartRangeOffset(req[w]) + offset_in_range[w],
      bytes |-> BlobBytes(PartStart(req[w]) + bytes_received[w], n),
      bytes_left |-> bytes_expected(w) - bytes_received[w] ]

\* A faulty variant of MakeChunk: the offsets of the part, not of the chunk.
MakeChunk_PartOffsets(w, n) ==
    [ part_index |-> req[w],
      chunk_index |-> chunk_index[w],
      blob_offset |-> PartStart(req[w]),
      range_offset |-> PartRangeOffset(req[w]),
      bytes |-> BlobBytes(PartStart(req[w]) + bytes_received[w], n),
      bytes_left |-> bytes_expected(w) - (bytes_received[w] + n) ]

\* The Chunk built for a buffer of n bytes received by worker w.
MakeChunk(w, n) ==
    [ part_index |-> req[w],
      chunk_index |-> chunk_index[w],
      blob_offset |-> PartStart(req[w]) + offset_in_range[w],
      range_offset |-> PartRangeOffset(req[w]) + offset_in_range[w],
      bytes |-> BlobBytes(PartStart(req[w]) + bytes_received[w], n),
      bytes_left |-> bytes_expected(w) - (bytes_received[w] + n) ]

\* bytes_stream.next() yields Some(Ok(bytes)): count the bytes, fail on too
\* many of them, else send_chunk (which fails when the receiver is gone).
WorkerStreamBytes(w) ==
    /\ pc[w] = "stream"
    /\ UNCHANGED << first_fetch, retryVars >>
    /\ \E n \in 0 .. MaxBufLen :
         /\ (n = 0 \/ bytes_received[w] + n > bytes_expected(w)) => anomalies < MaxAnomalies
         /\ bytes_received' = [bytes_received EXCEPT ![w] = @ + n]
         /\ probe' = IF bytes_received[w] + n > bytes_expected(w)
                        THEN part_failed(probe, req[w])
                        ELSE chunk_completed(probe, req[w])
         /\ IF bytes_received[w] + n > bytes_expected(w)
              THEN /\ err' = [err EXCEPT ![w] = ErrTooMany]
                   /\ pc' = [pc EXCEPT ![w] = "send_err"]
                   /\ anomalies' = anomalies + 1
                   /\ UNCHANGED << results, chunk_index, offset_in_range >>
              ELSE IF CanSend
              THEN /\ results' = Append(results, ChunkItem(MakeChunk(w, n)))
                   /\ chunk_index' = [chunk_index EXCEPT ![w] = @ + 1]
                   /\ offset_in_range' = [offset_in_range EXCEPT ![w] = @ + n]
                   /\ anomalies' = IF n = 0 THEN anomalies + 1 ELSE anomalies
                   /\ UNCHANGED << err, pc >>
              ELSE /\ pc' = [pc EXCEPT ![w] = "send_failed"]
                   /\ anomalies' = IF n = 0 THEN anomalies + 1 ELSE anomalies
                   /\ UNCHANGED << err, results, chunk_index, offset_in_range >>
    /\ UNCHANGED << cfg, request, is_failed, session, accepted, dispVars, queue, receiver_alive, req, completed, panicking,
                    kill_switch, counter, rx_state, consumerVars, eventVars, exit_err,
                    cancelled >>

\* bytes_stream.next() yields Some(Err(IoError)).
WorkerStreamIoError(w) ==
    /\ pc[w] = "stream"
    /\ UNCHANGED << first_fetch, retryVars >>
    /\ anomalies < MaxAnomalies
    /\ anomalies' = anomalies + 1
    /\ err' = [err EXCEPT ![w] = ErrIo]
    /\ probe' = part_failed(probe, req[w])
    /\ pc' = [pc EXCEPT ![w] = "send_err"]
    /\ UNCHANGED << cfg, request, is_failed, session, accepted, dispVars, queue, receiver_alive, partVars, completed,
                    panicking, kill_switch, counter, results, rx_state,
                    consumerVars, eventVars, exit_err,
                    cancelled >>

\* A faulty variant of WorkerStreamEnd: the byte count is not compared, a
\* part that ended early counts as complete.
WorkerStreamEnd_AcceptsShort(w) ==
    /\ pc[w] = "stream"
    /\ UNCHANGED << first_fetch, retryVars >>
    /\ bytes_received[w] # bytes_expected(w) => anomalies < MaxAnomalies
    /\ anomalies' = IF bytes_received[w] # bytes_expected(w) THEN anomalies + 1 ELSE anomalies
    /\ probe' = part_completed(probe, req[w])
    /\ pc' = [pc EXCEPT ![w] = "recv"]
    /\ UNCHANGED << cfg, request, is_failed, session, accepted, dispVars, queue, receiver_alive, partVars, completed,
                    panicking, kill_switch, counter, results, rx_state, err,
                    consumerVars, eventVars, exit_err,
                    cancelled >>

\* bytes_stream.next() yields None: the part is complete if the byte count
\* matches, and the worker goes on with its next request.
WorkerStreamEnd(w) ==
    /\ pc[w] = "stream"
    /\ UNCHANGED << first_fetch, retryVars >>
    /\ probe' = IF bytes_received[w] # bytes_expected(w)
                   THEN part_failed(part_completed(probe, req[w]), req[w])
                   ELSE part_completed(probe, req[w])
    /\ IF bytes_received[w] # bytes_expected(w)
         THEN /\ anomalies < MaxAnomalies
              /\ anomalies' = anomalies + 1
              /\ err' = [err EXCEPT ![w] = ErrWrongCount]
              /\ pc' = [pc EXCEPT ![w] = "send_err"]
         ELSE /\ pc' = [pc EXCEPT ![w] = "recv"]
              /\ UNCHANGED << err, anomalies >>
    /\ UNCHANGED << cfg, request, is_failed, session, accepted, dispVars, queue, receiver_alive, partVars, completed,
                    panicking, kill_switch, counter, results, rx_state,
                    consumerVars, eventVars, exit_err,
                    cancelled >>

\* The byte stream panics while it is polled: the task unwinds, which drops
\* the request receiver and then the context.
WorkerStreamPanic(w) ==
    /\ pc[w] = "stream"
    /\ UNCHANGED << first_fetch, retryVars >>
    /\ panicking' = [panicking EXCEPT ![w] = TRUE]
    /\ receiver_alive' = [receiver_alive EXCEPT ![w] = FALSE]
    /\ pc' = [pc EXCEPT ![w] = "drop"]
    /\ anomalies < MaxAnomalies
    /\ anomalies' = anomalies + 1
    /\ UNCHANGED << cfg, request, is_failed, session, probe, accepted, dispVars, queue, partVars, completed, err, kill_switch,
                    counter, results, rx_state, consumerVars, eventVars, exit_err,
                    cancelled >>

\* --- DownloaderContext
\* A faulty variant of WorkerSendErr: the button is pushed before the error
\* is put on the channel.
WorkerSendErr_ArmsFirst(w) ==
    /\ pc[w] = "send_err"
    /\ IF ~completed[w]
         THEN /\ push_the_button
              /\ completed' = [completed EXCEPT ![w] = TRUE]
              /\ UNCHANGED << results, exit_err, pc >>
         ELSE /\ results' = IF CanSend THEN Append(results, ErrItem(err[w])) ELSE results
              /\ exit_err' = [exit_err EXCEPT ![w] = err[w]]
              /\ pc' = [pc EXCEPT ![w] = "send_err_arm"]
              /\ UNCHANGED << completed, kill_switch >>
    /\ UNCHANGED << cfg, request, is_failed, session, probe, accepted, dispVars, queue, receiver_alive, partVars, err, panicking,
                    counter, rx_state, consumerVars, eventVars,
                    cancelled, adapterVars >>

\* A faulty variant of WorkerSendErr: send_err does not set completed.
WorkerSendErr_NotCompleted(w) ==
    /\ pc[w] = "send_err"
    /\ results' = IF CanSend THEN Append(results, ErrItem(err[w])) ELSE results
    /\ exit_err' = [exit_err EXCEPT ![w] = err[w]]
    /\ pc' = [pc EXCEPT ![w] = "send_err_arm"]
    /\ UNCHANGED << cfg, request, is_failed, session, probe, accepted, dispVars, queue, receiver_alive, partVars, err, panicking,
                    kill_switch, counter, rx_state, consumerVars, eventVars,
                    cancelled, adapterVars, completed >>

\* send_err, first half: unbounded_send(Err(err)), result ignored;
\* completed = true.
WorkerSendErr(w) ==
    /\ pc[w] = "send_err"
    /\ results' = IF CanSend THEN Append(results, ErrItem(err[w])) ELSE results
    /\ completed' = [completed EXCEPT ![w] = TRUE]
    /\ exit_err' = [exit_err EXCEPT ![w] = err[w]]
    /\ pc' = [pc EXCEPT ![w] = "send_err_arm"]
    /\ UNCHANGED << cfg, request, is_failed, session, probe, accepted, dispVars, queue, receiver_alive, partVars, err, panicking,
                    kill_switch, counter, rx_state, consumerVars, eventVars,
                    cancelled, adapterVars >>

\* send_err, second half: push_the_button; the worker then returns, which
\* drops its request receiver.
WorkerSendErrArm(w) ==
    /\ pc[w] = "send_err_arm"
    /\ push_the_button
    /\ receiver_alive' = [receiver_alive EXCEPT ![w] = FALSE]
    /\ pc' = [pc EXCEPT ![w] = "drop"]
    /\ UNCHANGED << cfg, request, is_failed, session, probe, accepted, dispVars, queue, partVars, completed, err, panicking,
                    counter, results, rx_state, consumerVars, eventVars, exit_err,
                    cancelled, adapterVars >>

\* A faulty variant of WorkerSendFailed: a failed send does not push the button.
WorkerSendFailed_NoArm(w) ==
    /\ pc[w] = "send_failed"
    /\ receiver_alive' = [receiver_alive EXCEPT ![w] = FALSE]
    /\ pc' = [pc EXCEPT ![w] = "drop"]
    /\ UNCHANGED << cfg, request, is_failed, session, probe, accepted, dispVars, queue, partVars, completed, err, panicking,
                    kill_switch, counter, results, rx_state, consumerVars,
                    eventVars, exit_err, cancelled, adapterVars >>

\* send_chunk after a failed unbounded_send: push_the_button, Err(()); the
\* worker returns.
WorkerSendFailed(w) ==
    /\ pc[w] = "send_failed"
    /\ push_the_button
    /\ receiver_alive' = [receiver_alive EXCEPT ![w] = FALSE]
    /\ pc' = [pc EXCEPT ![w] = "drop"]
    /\ UNCHANGED << cfg, request, is_failed, session, probe, accepted, dispVars, queue, partVars, completed, err, panicking,
                    counter, results, rx_state, consumerVars, eventVars, exit_err,
                    cancelled, adapterVars >>

\* Drop for DownloaderContext: if !self.completed, push_the_button and the
\* panic_detected event (the error is sent in the next step); a completed
\* context goes straight to self.counter.fetch_sub(1).
ContextDrop(w) ==
    /\ pc[w] = "drop"
    /\ IF ~completed[w]
         THEN /\ push_the_button
              /\ panic_detected' = IF panicking[w] THEN panic_detected + 1 ELSE panic_detected
              /\ pc' = [pc EXCEPT ![w] = "drop_send"]
              /\ UNCHANGED counter
         ELSE /\ counter' = counter - 1
              /\ pc' = [pc EXCEPT ![w] = "drop_load"]
              /\ UNCHANGED << kill_switch, panic_detected >>
    /\ UNCHANGED << cfg, request, is_failed, session, probe, accepted, dispVars, queue, receiver_alive, partVars, completed, err,
                    panicking, results, rx_state, consumerVars,
                    completed_events, failed_events, exit_err,
                    cancelled, adapterVars >>

\* The error an incomplete context sends from its drop.
DropError(w) == IF panicking[w] THEN ErrPanic ELSE ErrUnexpected

\* A faulty variant of ContextDropSendErr: the drop sends no error.
ContextDropSendErr_NoSend(w) ==
    /\ pc[w] = "drop_send"
    /\ exit_err' = [exit_err EXCEPT ![w] = DropError(w)]
    /\ pc' = [pc EXCEPT ![w] = "drop_dec"]
    /\ UNCHANGED << cfg, request, is_failed, session, probe, accepted, dispVars, queue, receiver_alive, partVars, completed, err,
                    panicking, kill_switch, counter, results, rx_state, consumerVars,
                    eventVars, cancelled, adapterVars >>

\* Drop, !self.completed: unbounded_send(Err(err)), result ignored.
ContextDropSendErr(w) ==
    /\ pc[w] = "drop_send"
    /\ results' = IF CanSend THEN Append(results, ErrItem(DropError(w))) ELSE results
    /\ exit_err' = [exit_err EXCEPT ![w] = DropError(w)]
    /\ pc' = [pc EXCEPT ![w] = "drop_dec"]
    /\ UNCHANGED << cfg, request, is_failed, session, probe, accepted, dispVars, queue, receiver_alive, partVars, completed, err,
                    panicking, kill_switch, counter, rx_state, consumerVars, eventVars,
                    cancelled, adapterVars >>

\* Drop: self.counter.fetch_sub(1) of a context that was not completed
ContextDropDecrement(w) ==
    /\ pc[w] = "drop_dec"
    /\ counter' = counter - 1
    /\ pc' = [pc EXCEPT ![w] = "drop_load"]
    /\ UNCHANGED << cfg, request, is_failed, session, probe, accepted, dispVars, queue, receiver_alive, partVars, completed, err,
                    panicking, kill_switch, results, rx_state, consumerVars,
                    eventVars, exit_err, cancelled, adapterVars >>

\* A faulty variant of IsLastContext: the terminal event is emitted while
\* one context is still counted.
IsLastContext_OneLeft(c) == c <= 1

\* Whether a drop that loads the value c of the counter emits the terminal
\* event.
IsLastContext(c) == c = 0

\* A faulty variant of EmitsFailed: the Kill Switch is not consulted.
EmitsFailed_Never == FALSE

\* The terminal event is download_failed iff the Kill Switch is pushed.
EmitsFailed == is_pushed

\* Drop: if self.counter.load() == 0, emit download_failed when the Kill
\* Switch is pushed and download_completed otherwise; then the fields of the
\* context, its results_sender among them, are dropped.
ContextDropLoad(w) ==
    /\ pc[w] = "drop_load"
    /\ IF IsLastContext(counter)
         THEN IF EmitsFailed
                THEN /\ failed_events' = failed_events + 1
                     /\ UNCHANGED completed_events
                ELSE /\ completed_events' = completed_events + 1
                     /\ UNCHANGED failed_events
         ELSE UNCHANGED << completed_events, failed_events >>
    /\ pc' = [pc EXCEPT ![w] = "done"]
    /\ UNCHANGED << cfg, request, is_failed, session, probe, accepted, dispVars, queue, receiver_alive, partVars, completed, err,
                    panicking, kill_switch, counter, results, rx_state,
                    consumerVars, panic_detected, exit_err, cancelled, adapterVars >>

\* ------------------------------------------------------------ dispatcher
\* The worker the dispatcher tries next.
TargetIdx == (disp_counter + attempt) % cfg.n_concurrent

\* attempt += 1. Only attempt % n_concurrent is ever used, so the model
\* keeps the value below 2 * n_concurrent + 1 with its residue unchanged.
NextAttempt == IF attempt + 1 > 2 * cfg.n_concurrent
               THEN attempt + 1 - cfg.n_concurrent
               ELSE attempt + 1

\* A faulty variant of PullNext: download() returns and the request senders stay
\* alive.
PullNext_KeepsSenders ==
    IF next_part < NParts
      THEN /\ range_request' = next_part
           /\ next_part' = next_part + 1
           /\ attempt' = 1
           /\ disp_pc' = "loop"
           /\ UNCHANGED disp_result
      ELSE /\ disp_pc' = "returned"
           /\ disp_result' = "ok"
           /\ UNCHANGED << range_request, next_part, attempt >>

\* ranges_stream.next().await: the dispatcher takes the next part request of
\* the planner and starts its enqueue loop with attempt = 1, or, the planner
\* being exhausted, download() returns Ok(()) and the ConcurrentDownloader
\* is dropped, and with it the request sender of every worker.
PullNext ==
    IF next_part < NParts
      THEN /\ range_request' = next_part
           /\ next_part' = next_part + 1
           /\ attempt' = 1
           /\ disp_pc' = "loop"
           /\ UNCHANGED disp_result
      ELSE /\ disp_pc' = "dropped"
           /\ disp_result' = "ok"
           /\ UNCHANGED << range_request, next_part, attempt >>

\* ConcurrentDownloader::download up to the first enqueue attempt.
DispatcherStart ==
    /\ disp_pc = "start"
    /\ PullNext
    /\ UNCHANGED << cfg, request, is_failed, session, probe, accepted, disp_counter, lap, pc, queue, receiver_alive, partVars, completed,
                    err, panicking, kill_switch, counter, results, rx_state,
                    consumerVars, eventVars, exit_err, cancelled, adapterVars >>

\* try_send on the request channel of worker w would accept a request.
HasRoom(w) == receiver_alive[w] /\ Len(queue[w]) < QueueCapacity

\* if attempt % self.downloaders.len() == 0 { self.reporter.queue_full(); .. }
ReportsQueueFull == attempt % cfg.n_concurrent = 0

\* The queue_full of this iteration, if one is reported: the workers tried
\* since the previous queue_full of this request (or since the request was
\* pulled), and the workers not tried that have room.
QueueFullReport ==
    IF ReportsQueueFull
      THEN [made |-> TRUE, tried |-> lap.tried,
            room |-> { w \in Workers \ lap.tried : HasRoom(w) }]
      ELSE NoReport

\* A faulty variant of DispatcherEnqueue: a worker that is gone is passed
\* over like one whose queue is full.
DispatcherEnqueue_SkipsGone ==
    /\ disp_pc = "loop"
    /\ LET idx == TargetIdx
           tried == (IF ReportsQueueFull THEN {} ELSE lap.tried) \cup {idx}
       IN
         IF ~receiver_alive[idx] \/ Len(queue[idx]) >= QueueCapacity
           THEN /\ attempt' = NextAttempt
                /\ lap' = [tried |-> tried, report |-> QueueFullReport]
                /\ UNCHANGED << queue, disp_pc, disp_counter, disp_result, kill_switch,
                                range_request, next_part, accepted >>
           ELSE /\ queue' = [queue EXCEPT ![idx] = Append(@, range_request)]
                /\ accepted' = [accepted EXCEPT ![idx] = Append(@, range_request)]
                /\ disp_counter' = disp_counter + 1
                /\ PullNext
                /\ lap' = [tried |-> {}, report |-> QueueFullReport]
                /\ UNCHANGED kill_switch
    /\ UNCHANGED << cfg, request, is_failed, session, probe, pc, receiver_alive, partVars,
                    completed, err, panicking, counter, results, rx_state,
                    consumerVars, eventVars, exit_err,
                    cancelled, adapterVars >>

\* A faulty variant of DispatcherEnqueue: a request that is handed back by
\* a full queue is given up and the next one is pulled.
DispatcherEnqueue_DropsOnFull ==
    /\ disp_pc = "loop"
    /\ LET idx == TargetIdx
           tried == (IF ReportsQueueFull THEN {} ELSE lap.tried) \cup {idx}
       IN
         IF ~receiver_alive[idx]
           THEN /\ push_the_button
                /\ disp_pc' = "dropped"
                /\ disp_result' = "err"
                /\ lap' = [tried |-> tried, report |-> QueueFullReport]
                /\ UNCHANGED << queue, disp_counter, attempt, range_request, next_part,
                                accepted >>
           ELSE IF Len(queue[idx]) >= QueueCapacity
           THEN /\ PullNext
                /\ lap' = [tried |-> {}, report |-> QueueFullReport]
                /\ UNCHANGED << queue, disp_counter, kill_switch, accepted >>
           ELSE /\ queue' = [queue EXCEPT ![idx] = Append(@, range_request)]
                /\ accepted' = [accepted EXCEPT ![idx] = Append(@, range_request)]
                /\ disp_counter' = disp_counter + 1
                /\ PullNext
                /\ lap' = [tried |-> {}, report |-> QueueFullReport]
                /\ UNCHANGED kill_switch
    /\ UNCHANGED << cfg, request, is_failed, session, probe, pc, receiver_alive, partVars,
                    completed, err, panicking, counter, results, rx_state,
                    consumerVars, eventVars, exit_err,
                    cancelled, adapterVars >>

\* One iteration of the enqueue loop: queue_full and the sleep when
\* attempt % n == 0, then downloader.enqueue(range_request) on the target
\* worker (try_send). Accepted: counter += 1 and the next request is
\* pulled. Handed back because the queue is full: attempt += 1. The worker
\* is gone: push_the_button and Err(()), which drops the dispatcher.
DispatcherEnqueue ==
    /\ disp_pc = "loop"
    /\ LET idx == TargetIdx
           tried == (IF ReportsQueueFull THEN {} ELSE lap.tried) \cup {idx}
       IN
         IF ~receiver_alive[idx]
           THEN /\ push_the_button
                /\ disp_pc' = "dropped"
                /\ disp_result' = "err"
                /\ lap' = [tried |-> tried, report |-> QueueFullReport]
                /\ UNCHANGED << queue, disp_counter, attempt, range_request, next_part,
                                accepted >>
           ELSE IF Len(queue[idx]) >= QueueCapacity
           THEN /\ attempt' = NextAttempt
                /\ lap' = [tried |-> tried, report |-> QueueFullReport]
                /\ UNCHANGED << queue, disp_pc, disp_counter, disp_result, kill_switch,
                                range_request, next_part, accepted >>
           ELSE /\ queue' = [queue EXCEPT ![idx] = Append(@, range_request)]
                /\ accepted' = [accepted EXCEPT ![idx] = Append(@, range_request)]
                /\ disp_counter' = disp_counter + 1
                /\ PullNext
                /\ lap' = [tried |-> {}, report |-> QueueFullReport]
                /\ UNCHANGED kill_switch
    /\ UNCHANGED << cfg, request, is_failed, session, probe, pc, receiver_alive, partVars,
                    completed, err, panicking, counter, results, rx_state,
                    consumerVars, eventVars, exit_err,
                    cancelled, adapterVars >>

\* ------------------------------------------------------------ ChunkStream
\* A faulty variant of reduce_by: only the lower bound is reduced.
reduce_by_LowerOnly(h, by) ==
    [h EXCEPT !.lower = IF h.lower >= by THEN h.lower - by ELSE 0]

\* A faulty variant of reduce_by: the bounds are reduced without a check.
reduce_by_Unchecked(h, by) ==
    [ lower |-> h.lower - by,
      has_upper |-> h.has_upper,
      upper |-> IF h.has_upper THEN h.upper - by ELSE 0 ]

\* BytesHint::reduce_by
reduce_by(h, by) ==
    IF by = 0 THEN h
    ELSE IF ~h.has_upper
    THEN IF h.lower = 0 THEN h
         ELSE IF h.lower >= by THEN [h EXCEPT !.lower = @ - by]
         ELSE [lower |-> 0, has_upper |-> FALSE, upper |-> 0]
    ELSE IF h.lower = 0
    THEN IF h.upper >= by THEN [h EXCEPT !.upper = @ - by]
         ELSE [lower |-> 0, has_upper |-> FALSE, upper |-> 0]
    ELSE [ lower |-> IF h.lower >= by THEN h.lower - by ELSE 0,
           has_upper |-> h.upper >= by,
           upper |-> IF h.upper >= by THEN h.upper - by ELSE 0 ]

\* BytesHint::new_exact
new_exact(n) == [lower |-> n, has_upper |-> TRUE, upper |-> n]

\* A faulty variant of WriteAt: the bytes outside the chunk are cleared.
WriteAt_ClearsRest(buf, off, bytes) ==
    [ i \in 1 .. Len(buf) |->
        IF i > off /\ i <= off + Len(bytes) THEN bytes[i - off] ELSE 0 ]

\* A faulty variant of WriteAt: every chunk is copied to the start of the buffer.
WriteAt_Start(buf, off, bytes) ==
    [ i \in 1 .. Len(buf) |-> IF i <= Len(bytes) THEN bytes[i] ELSE buf[i] ]

\* buffer[range_offset..end_excl].copy_from_slice(bytes)
WriteAt(buf, off, bytes) ==
    [ i \in 1 .. Len(buf) |->
        IF i > off /\ i <= off + Len(bytes) THEN bytes[i - off] ELSE buf[i] ]

\* All result senders are dropped: every context is gone.
SendersGone == \A w \in Workers : pc[w] = "done"

\* The number of end-of-stream answers the consumer got.
EosCount == Cardinality({ i \in 1 .. Len(delivered) : delivered[i].tag = "eos" })

\* A loop of write_buffer or of stream_into_vec_with_unknown_size is
\* polling the stream.
InLoop == whole_call.loop \in {"write_buffer", "unknown_size"}

\* The loop ends with the result r when it runs; a consumer that polls the
\* stream itself has no result.
LoopEnds(r) == vec_result' = IF InLoop THEN r ELSE vec_result

\* buffer.extend((0..missing).map(|_| 0)) when end_excl >= buffer.len()
Grow(buf, end_excl) ==
    IF end_excl >= Len(buf)
      THEN [ i \in 1 .. end_excl |-> IF i <= Len(buf) THEN buf[i] ELSE 0 ]
      ELSE buf

\* poll_next on a closed stream: None, which ends the loop of a
\* whole-stream method with Ok. The consumer of the model polls a closed
\* stream MaxPollsAfterClose times.
PollClosed ==
    /\ is_closed
    /\ cfg.mode = "poll"
    /\ EosCount < MaxPollsAfterClose
    /\ delivered' = Append(delivered, Eos)
    /\ LoopEnds("ok")
    /\ UNCHANGED << is_fresh, bytes_hint, n_read, buffer, is_closed,
                    rx_state, whole_call >>

\* A faulty variant of PollChunk: of a chunk that does not fit, write_buffer
\* copies the bytes that do before it fails.
PollChunk_WritesWhatFits ==
    /\ ~is_closed
    /\ n_read < Len(results)
    /\ results[n_read + 1].tag = "chunk"
    /\ LET chunk == results[n_read + 1].chunk
           end_excl == chunk.range_offset + Len(chunk.bytes)
       IN
         /\ is_fresh' = FALSE
         /\ n_read' = n_read + 1
         /\ delivered' = Append(delivered, results[n_read + 1])
         /\ bytes_hint' = reduce_by(bytes_hint, Len(chunk.bytes))
         /\ UNCHANGED is_closed
         /\ IF whole_call.loop = "write_buffer"
              THEN IF end_excl > Len(buffer)
                     THEN /\ rx_state' = "closed"
                          /\ vec_result' = "err"
                          /\ whole_call' = [whole_call EXCEPT
                                              !.error = "write attempt beyond buffer end"]
                          /\ buffer' = WriteAt(buffer, chunk.range_offset, chunk.bytes)
                     ELSE /\ buffer' = WriteAt(buffer, chunk.range_offset, chunk.bytes)
                          /\ whole_call' = [whole_call EXCEPT
                                              !.bytes_written = @ + Len(chunk.bytes)]
                          /\ UNCHANGED << rx_state, vec_result >>
              ELSE IF whole_call.loop = "unknown_size"
              THEN /\ buffer' = WriteAt(Grow(buffer, end_excl), chunk.range_offset, chunk.bytes)
                   /\ UNCHANGED << rx_state, vec_result, whole_call >>
              ELSE UNCHANGED << rx_state, vec_result, buffer, whole_call >>

\* poll_next, Ready(Some(Ok(chunk))): the hint is reduced and the chunk is
\* handed out. The loop of write_buffer copies the bytes to
\* buffer[range_offset ..] and fails if they do not fit; the loop of
\* stream_into_vec_with_unknown_size extends the vector first.
PollChunk ==
    /\ ~is_closed
    /\ n_read < Len(results)
    /\ results[n_read + 1].tag = "chunk"
    /\ LET chunk == results[n_read + 1].chunk
           end_excl == chunk.range_offset + Len(chunk.bytes)
       IN
         /\ is_fresh' = FALSE
         /\ n_read' = n_read + 1
         /\ delivered' = Append(delivered, results[n_read + 1])
         /\ bytes_hint' = reduce_by(bytes_hint, Len(chunk.bytes))
         /\ UNCHANGED is_closed
         /\ IF whole_call.loop = "write_buffer"
              THEN IF end_excl > Len(buffer)
                     THEN /\ rx_state' = "closed"
                          /\ vec_result' = "err"
                          /\ whole_call' = [whole_call EXCEPT
                                              !.error = "write attempt beyond buffer end"]
                          /\ UNCHANGED buffer
                     ELSE /\ buffer' = WriteAt(buffer, chunk.range_offset, chunk.bytes)
                          /\ whole_call' = [whole_call EXCEPT
                                              !.bytes_written = @ + Len(chunk.bytes)]
                          /\ UNCHANGED << rx_state, vec_result >>
              ELSE IF whole_call.loop = "unknown_size"
              THEN /\ buffer' = WriteAt(Grow(buffer, end_excl), chunk.range_offset, chunk.bytes)
                   /\ UNCHANGED << rx_state, vec_result, whole_call >>
              ELSE UNCHANGED << rx_state, vec_result, buffer, whole_call >>

\* A faulty variant of PollError: the stream stays open after an error item.
PollError_StaysOpen ==
    /\ ~is_closed
    /\ n_read < Len(results)
    /\ results[n_read + 1].tag = "err"
    /\ is_fresh' = FALSE
    /\ n_read' = n_read + 1
    /\ delivered' = Append(delivered, results[n_read + 1])
    /\ UNCHANGED is_closed
    /\ rx_state' = "closed"
    /\ bytes_hint' = new_exact(0)
    /\ LoopEnds("err")
    /\ UNCHANGED << buffer, whole_call >>

\* poll_next, Ready(Some(Err(err))): is_closed = true, receiver.close(),
\* the hint becomes exactly 0 and the error is handed out. The error ends
\* the loop of a whole-stream method.
PollError ==
    /\ ~is_closed
    /\ n_read < Len(results)
    /\ results[n_read + 1].tag = "err"
    /\ is_fresh' = FALSE
    /\ n_read' = n_read + 1
    /\ delivered' = Append(delivered, results[n_read + 1])
    /\ is_closed' = TRUE
    /\ rx_state' = "closed"
    /\ bytes_hint' = new_exact(0)
    /\ LoopEnds("err")
    /\ UNCHANGED << buffer, whole_call >>

\* poll_next, Ready(None): every sender is gone and the channel is empty;
\* is_closed = true. This ends the loop of a whole-stream method with Ok.
PollNone ==
    /\ ~is_closed
    /\ n_read = Len(results)
    /\ SendersGone
    /\ is_fresh' = FALSE
    /\ is_closed' = TRUE
    /\ delivered' = Append(delivered, Eos)
    /\ LoopEnds("ok")
    /\ UNCHANGED << bytes_hint, n_read, buffer, rx_state, whole_call >>

\* poll_next, Pending: nothing is queued and a sender is still alive.
PollPending ==
    /\ ~is_closed
    /\ n_read = Len(results)
    /\ ~SendersGone
    /\ is_fresh' = FALSE
    /\ UNCHANGED << bytes_hint, n_read, buffer, rx_state, is_closed, delivered,
                    vec_result, whole_call >>

\* ChunkStream::poll_next, called by a consumer that polls the stream itself
\* or by the loop of a whole-stream method.
ConsumerPoll ==
    /\ rx_state # "dropped"
    /\ vec_result = "pending"
    /\ \/ PollClosed
       \/ PollChunk
       \/ PollError
       \/ PollNone
       \/ PollPending
    /\ UNCHANGED << cfg, request, is_failed, session, probe, accepted, dispVars, pc, queue, receiver_alive, partVars, completed,
                    err, panicking, kill_switch, counter, results, eventVars,
                    exit_err, cancelled, adapterVars >>

\* The consumer drops the ChunkStream (or the into_vec future that owns it)
\* before the stream has ended: the result receiver disappears.
ConsumerDrop ==
    /\ rx_state = "open"
    /\ ~is_closed
    /\ rx_state' = "dropped"
    /\ cancelled' = (LiveWorkers # {})
    /\ UNCHANGED << cfg, request, is_failed, session, probe, accepted, dispVars, pc, queue, receiver_alive, partVars, completed,
                    err, panicking, kill_switch, counter, results, consumerVars,
                    eventVars, exit_err,
                    adapterVars >>

\* The whole-stream methods of a ChunkStream.
WholeMethods == {"write_buffer", "into_vec", "part_stream"}

\* BytesHint::is_exact
is_exact(h) == h.has_upper /\ h.upper = h.lower

\* A whole-stream method has returned the error with this message.
Refused(method, msg) ==
    [called |-> method, loop |-> "none", bytes_written |-> 0, error |-> msg]

\* The loop a whole-stream method runs on a fresh stream: into_vec calls
\* write_buffer when the hint is exact and
\* stream_into_vec_with_unknown_size when it is not; a PartStream polls the
\* stream as its consumer polls it.
LoopOf(method) ==
    IF method = "part_stream" THEN "part_stream"
    ELSE IF method = "into_vec" /\ ~is_exact(bytes_hint) THEN "unknown_size"
    ELSE "write_buffer"

\* The buffer a whole-stream method writes to: the caller's for write_buffer,
\* vec![0; total_bytes] for into_vec with an exact hint, an empty vector for
\* stream_into_vec_with_unknown_size.
BufferOf(method) ==
    IF method = "into_vec"
      THEN IF is_exact(bytes_hint) THEN [ i \in 1 .. bytes_hint.lower |-> 0 ] ELSE << >>
      ELSE buffer

\* A faulty variant of WholeStreamCall: a stream that was iterated is
\* accepted.
WholeStreamCall_AnyStream(method) ==
    /\ whole_call.called = "none"
    /\ vec_result = "pending"
    /\ rx_state # "dropped"
    /\ IF method = "write_buffer" /\ Len(buffer) < bytes_hint.lower
         THEN /\ rx_state' = "closed"
              /\ vec_result' = "err"
              /\ whole_call' = Refused(method, "buffer to small")
              /\ UNCHANGED buffer
         ELSE /\ whole_call' = [called |-> method, loop |-> LoopOf(method),
                                bytes_written |-> 0, error |-> ""]
              /\ buffer' = BufferOf(method)
              /\ UNCHANGED << rx_state, vec_result >>
    /\ UNCHANGED << cfg, request, is_failed, session, probe, accepted, dispVars, pc, queue, receiver_alive, partVars, completed,
                    err, panicking, kill_switch, counter, results, is_closed,
                    is_fresh, bytes_hint, delivered, n_read, eventVars,
                    exit_err, cancelled, adapterVars >>

\* write_buffer, into_vec or try_into_part_stream is called on the stream.
\* A stream that is not fresh is refused and its receiver closed;
\* write_buffer also refuses a buffer shorter than the lower bound of the
\* hint. Otherwise the loop of the method starts.
WholeStreamCall(method) ==
    /\ whole_call.called = "none"
    /\ vec_result = "pending"
    /\ rx_state # "dropped"
    /\ IF ~is_fresh
         THEN /\ rx_state' = "closed"
              /\ vec_result' = "err"
              /\ whole_call' = Refused(method, "stream already iterated")
              /\ UNCHANGED buffer
         ELSE IF method = "write_buffer" /\ Len(buffer) < bytes_hint.lower
         THEN /\ rx_state' = "closed"
              /\ vec_result' = "err"
              /\ whole_call' = Refused(method, "buffer to small")
              /\ UNCHANGED buffer
         ELSE /\ whole_call' = [called |-> method, loop |-> LoopOf(method),
                                bytes_written |-> 0, error |-> ""]
              /\ buffer' = BufferOf(method)
              /\ UNCHANGED << rx_state, vec_result >>
    /\ UNCHANGED << cfg, request, is_failed, session, probe, accepted, dispVars, pc, queue, receiver_alive, partVars, completed,
                    err, panicking, kill_switch, counter, results, is_closed,
                    is_fresh, bytes_hint, delivered, n_read, eventVars,
                    exit_err, cancelled, adapterVars >>

\* ------------------------------------------------------------ retry layer
\* The kinds of a CondowError.
ErrorKinds == {"InvalidRange", "NotFound", "AccessDenied", "Remote", "Io", "Other"}

\* HTTP statuses of the failed responses the S3 adapter is given here.
HttpStatuses == {400, 401, 403, 404, 500, 503}

\* response_to_condow_err: the kind of the CondowError made of a response.
response_to_condow_err(status) ==
    IF status = 404 THEN "NotFound"
    ELSE IF status \in {401, 403} THEN "AccessDenied"
    ELSE IF status >= 500 /\ status <= 599 THEN "Remote"
    ELSE "Other"

\* The error kinds with which an adapter call fails: those of a failed
\* response, an I/O failure and a rejected range.
AdapterErrorKinds ==
    { response_to_condow_err(status) : status \in HttpStatuses } \cup {"Io", "InvalidRange"}

\* Io and Remote are transient; an error of kind Other is not marked
\* transient by the adapters here.
IsTransient(kind) == kind \in {"Io", "Remote"}

\* A faulty variant of ShouldRetry: every failure is retried while attempts
\* are left.
ShouldRetry_AnyKind(kind, used) == used < max_attempts

\* A failure is retried iff it is transient and attempts are left.
ShouldRetry(kind, used) == IsTransient(kind) /\ used < max_attempts

ErrPanicRetry == [kind |-> "Io", msg |-> "panicked while retrying"]

\* An error of the resuming fetch, surfaced as an error of the byte stream.
ErrStream(k) == [kind |-> "Io", msg |-> ErrFetch(k).msg]

\* A faulty variant of ResumeFrom: the part is fetched from its start again.
ResumeFrom_PartStart(w) == PartStart(req[w])

\* The start of the remaining sub-range [start + k, end_incl] of the part
\* after k bytes were handed to the worker.
ResumeFrom(w) == PartStart(req[w]) + bytes_received[w]

\* The chunk of a buffer of n bytes the adapter's stream yields at stream_pos.
RetryChunk(w, n) == [ MakeChunk(w, n) EXCEPT !.bytes = BlobBytes(stream_pos[w], n) ]

\* The downloader is built once the size call has returned the size.
SizeResolved == size_call.pc \in {"skipped", "ok"}

\* ClientRetryWrapper::get_size: the adapter is called, and called again
\* after a failure that is to be retried; a failure that is not retried is
\* returned to the caller and no download is started.
RetryGetSize ==
    /\ size_call.pc = "calling"
    /\ \E outcome \in {"ok"} \cup AdapterErrorKinds :
         size_call' =
             IF outcome = "ok"
               THEN [pc |-> "ok", attempts |-> 0, outcome |-> "ok"]
             ELSE IF ShouldRetry(outcome, size_call.attempts)
               THEN [pc |-> "calling", attempts |-> size_call.attempts + 1, outcome |-> outcome]
             ELSE [pc |-> "failed", attempts |-> size_call.attempts, outcome |-> outcome]
    /\ UNCHANGED << cfg, request, is_failed, session, probe, accepted, dispVars, pc, queue, receiver_alive, partVars, completed,
                    err, panicking, kill_switch, counter, results, rx_state,
                    consumerVars, eventVars, exit_err, cancelled, anomalies,
                    first_fetch, max_attempts, attempts, resumed_at, stream_pos,
                    fetches, last_outcome >>

\* ClientRetryWrapper::download awaited by the worker: the adapter is called,
\* and called again after a failure that is to be retried; a failure that is
\* not retried is returned to the worker.
RetryFetch(w) ==
    /\ pc[w] = "fetch"
    /\ \E outcome \in {"ok"} \cup AdapterErrorKinds :
         /\ outcome # "ok" => anomalies < MaxFaults
         /\ anomalies' = IF outcome = "ok" THEN anomalies ELSE anomalies + 1
         /\ fetches' = [fetches EXCEPT ![w] = @ + 1]
         /\ last_outcome' = [last_outcome EXCEPT ![w] = outcome]
         /\ probe' = IF outcome = "ok" THEN part_started(probe, req[w])
                      ELSE IF ShouldRetry(outcome, attempts[w]) THEN probe
                      ELSE part_failed(probe, req[w])
         /\ IF outcome = "ok"
              THEN /\ pc' = [pc EXCEPT ![w] = "stream"]
                   /\ chunk_index' = [chunk_index EXCEPT ![w] = 0]
                   /\ offset_in_range' = [offset_in_range EXCEPT ![w] = 0]
                   /\ bytes_received' = [bytes_received EXCEPT ![w] = 0]
                   /\ stream_pos' = [stream_pos EXCEPT ![w] = PartStart(req[w])]
                   /\ resumed_at' = [resumed_at EXCEPT ![w] = -1]
                   /\ UNCHANGED << err, attempts >>
              ELSE IF ShouldRetry(outcome, attempts[w])
              THEN /\ attempts' = [attempts EXCEPT ![w] = @ + 1]
                   /\ UNCHANGED << pc, err, chunk_index, offset_in_range,
                                   bytes_received, stream_pos, resumed_at >>
              ELSE /\ pc' = [pc EXCEPT ![w] = "send_err"]
                   /\ err' = [err EXCEPT ![w] = ErrFetch(outcome)]
                   /\ UNCHANGED << attempts, chunk_index, offset_in_range,
                                   bytes_received, stream_pos, resumed_at >>
    /\ UNCHANGED results
    /\ UNCHANGED << cfg, request, is_failed, session, accepted, dispVars, queue, receiver_alive, req, completed, panicking,
                    kill_switch, counter, rx_state, consumerVars, eventVars, exit_err,
                    cancelled, first_fetch, max_attempts, size_call >>

\* bytes_stream.next() on the wrapped stream yields the next buffer of the
\* adapter's stream; the worker counts it and sends the chunk.
RetryStreamBytes(w) ==
    /\ pc[w] = "stream"
    /\ \E n \in 1 .. MaxBufLen :
         /\ stream_pos[w] + n - 1 <= PartEndIncl(req[w])
         /\ stream_pos' = [stream_pos EXCEPT ![w] = @ + n]
         /\ bytes_received' = [bytes_received EXCEPT ![w] = @ + n]
         /\ probe' = IF bytes_received[w] + n > bytes_expected(w)
                        THEN part_failed(probe, req[w])
                        ELSE chunk_completed(probe, req[w])
         /\ IF bytes_received[w] + n > bytes_expected(w)
              THEN /\ err' = [err EXCEPT ![w] = ErrTooMany]
                   /\ pc' = [pc EXCEPT ![w] = "send_err"]
                   /\ UNCHANGED << results, chunk_index, offset_in_range >>
              ELSE IF CanSend
              THEN /\ results' = Append(results, ChunkItem(RetryChunk(w, n)))
                   /\ chunk_index' = [chunk_index EXCEPT ![w] = @ + 1]
                   /\ offset_in_range' = [offset_in_range EXCEPT ![w] = @ + n]
                   /\ UNCHANGED << err, pc >>
              ELSE /\ pc' = [pc EXCEPT ![w] = "send_failed"]
                   /\ UNCHANGED << err, results, chunk_index, offset_in_range >>
    /\ UNCHANGED << anomalies, attempts, resumed_at, fetches, last_outcome >>
    /\ UNCHANGED << cfg, request, is_failed, session, accepted, dispVars, queue, receiver_alive, req, completed, panicking,
                    kill_switch, counter, rx_state, consumerVars, eventVars, exit_err,
                    cancelled, first_fetch, max_attempts, size_call >>

\* A faulty variant of RetryStreamFailure: a resumption is not counted as
\* an attempt.
RetryStreamFailure_OwnBudget(w) ==
    /\ pc[w] = "stream"
    /\ stream_pos[w] <= PartEndIncl(req[w])
    /\ anomalies < MaxFaults
    /\ anomalies' = anomalies + 1
    /\ last_outcome' = [last_outcome EXCEPT ![w] = "stream failed"]
    /\ probe' = IF ShouldRetry("Io", attempts[w]) THEN probe
                   ELSE part_failed(probe, req[w])
    /\ IF ShouldRetry("Io", attempts[w])
         THEN /\ pc' = [pc EXCEPT ![w] = "refetch"]
              /\ UNCHANGED << err, attempts >>
         ELSE /\ err' = [err EXCEPT ![w] = ErrIo]
              /\ pc' = [pc EXCEPT ![w] = "send_err"]
              /\ UNCHANGED attempts
    /\ UNCHANGED << results, chunk_index, offset_in_range, bytes_received,
                    resumed_at, stream_pos, fetches >>
    /\ UNCHANGED << cfg, request, is_failed, session, accepted, dispVars, queue, receiver_alive, req, completed, panicking,
                    kill_switch, counter, rx_state, consumerVars, eventVars, exit_err,
                    cancelled, first_fetch, max_attempts, size_call >>

\* The adapter's stream fails before the part is complete: with attempts
\* left the layer goes on to fetch the rest of the part, else the failure is
\* the Io error of the wrapped stream.
RetryStreamFailure(w) ==
    /\ pc[w] = "stream"
    /\ stream_pos[w] <= PartEndIncl(req[w])
    /\ anomalies < MaxFaults
    /\ anomalies' = anomalies + 1
    /\ last_outcome' = [last_outcome EXCEPT ![w] = "stream failed"]
    /\ probe' = IF ShouldRetry("Io", attempts[w]) THEN probe
                   ELSE part_failed(probe, req[w])
    /\ IF ShouldRetry("Io", attempts[w])
         THEN /\ attempts' = [attempts EXCEPT ![w] = @ + 1]
              /\ pc' = [pc EXCEPT ![w] = "refetch"]
              /\ UNCHANGED err
         ELSE /\ err' = [err EXCEPT ![w] = ErrIo]
              /\ pc' = [pc EXCEPT ![w] = "send_err"]
              /\ UNCHANGED attempts
    /\ UNCHANGED << results, chunk_index, offset_in_range, bytes_received,
                    resumed_at, stream_pos, fetches >>
    /\ UNCHANGED << cfg, request, is_failed, session, accepted, dispVars, queue, receiver_alive, req, completed, panicking,
                    kill_switch, counter, rx_state, consumerVars, eventVars, exit_err,
                    cancelled, first_fetch, max_attempts, size_call >>

\* Stream resumption: the layer fetches the rest of the part. A failure of
\* the fetch is retried like a failed request; one that is not retried, and
\* a panic of the fetch, end the wrapped stream with an Io error.
RetryRefetch(w) ==
    /\ pc[w] = "refetch"
    /\ \E outcome \in {"ok", "panic"} \cup AdapterErrorKinds :
         /\ outcome # "ok" => anomalies < MaxFaults
         /\ anomalies' = IF outcome = "ok" THEN anomalies ELSE anomalies + 1
         /\ fetches' = [fetches EXCEPT ![w] = @ + 1]
         /\ last_outcome' = [last_outcome EXCEPT ![w] = outcome]
         /\ probe' = IF outcome = "ok" \/ (outcome # "panic" /\ ShouldRetry(outcome, attempts[w]))
                        THEN probe
                        ELSE part_failed(probe, req[w])
         /\ IF outcome = "ok"
              THEN /\ pc' = [pc EXCEPT ![w] = "stream"]
                   /\ stream_pos' = [stream_pos EXCEPT ![w] = ResumeFrom(w)]
                   /\ resumed_at' = [resumed_at EXCEPT ![w] = bytes_received[w]]
                   /\ UNCHANGED << err, attempts >>
              ELSE IF outcome = "panic"
              THEN /\ pc' = [pc EXCEPT ![w] = "send_err"]
                   /\ err' = [err EXCEPT ![w] = ErrPanicRetry]
                   /\ UNCHANGED << attempts, stream_pos, resumed_at >>
              ELSE IF ShouldRetry(outcome, attempts[w])
              THEN /\ attempts' = [attempts EXCEPT ![w] = @ + 1]
                   /\ UNCHANGED << pc, err, stream_pos, resumed_at >>
              ELSE /\ pc' = [pc EXCEPT ![w] = "send_err"]
                   /\ err' = [err EXCEPT ![w] = ErrStream(outcome)]
                   /\ UNCHANGED << attempts, stream_pos, resumed_at >>
    /\ UNCHANGED << results, chunk_index, offset_in_range, bytes_received >>
    /\ UNCHANGED << cfg, request, is_failed, session, accepted, dispVars, queue, receiver_alive, req, completed, panicking,
                    kill_switch, counter, rx_state, consumerVars, eventVars, exit_err,
                    cancelled, first_fetch, max_attempts, size_call >>

\* A faulty variant of RetryStreamPanic: the panic is not caught and unwinds
\* the worker task.
RetryStreamPanic_Uncaught(w) ==
    /\ pc[w] = "stream"
    /\ resumed_at[w] >= 0
    /\ anomalies < MaxFaults
    /\ anomalies' = anomalies + 1
    /\ last_outcome' = [last_outcome EXCEPT ![w] = "panic"]
    /\ panicking' = [panicking EXCEPT ![w] = TRUE]
    /\ receiver_alive' = [receiver_alive EXCEPT ![w] = FALSE]
    /\ pc' = [pc EXCEPT ![w] = "drop"]
    /\ UNCHANGED << results, chunk_index, offset_in_range, bytes_received,
                    attempts, resumed_at, stream_pos, fetches, err >>
    /\ UNCHANGED << cfg, request, is_failed, session, probe, accepted, dispVars, queue, req, completed,
                    kill_switch, counter, rx_state, consumerVars, eventVars, exit_err,
                    cancelled, first_fetch, max_attempts, size_call >>

\* The resumed stream panics while it is polled: the panic is caught and the
\* wrapped stream ends with the Io error "panicked while retrying".
RetryStreamPanic(w) ==
    /\ pc[w] = "stream"
    /\ resumed_at[w] >= 0
    /\ anomalies < MaxFaults
    /\ anomalies' = anomalies + 1
    /\ last_outcome' = [last_outcome EXCEPT ![w] = "panic"]
    /\ err' = [err EXCEPT ![w] = ErrPanicRetry]
    /\ probe' = part_failed(probe, req[w])
    /\ pc' = [pc EXCEPT ![w] = "send_err"]
    /\ UNCHANGED << results, chunk_index, offset_in_range, bytes_received,
                    attempts, resumed_at, stream_pos, fetches >>
    /\ UNCHANGED << cfg, request, is_failed, session, accepted, dispVars, queue, receiver_alive, req, completed, panicking,
                    kill_switch, counter, rx_state, consumerVars, eventVars, exit_err,
                    cancelled, first_fetch, max_attempts, size_call >>

\* The adapter's stream ends after the last byte of the fetched range: the
\* worker compares the byte count and goes on with its next request.
RetryStreamEnd(w) ==
    /\ pc[w] = "stream"
    /\ stream_pos[w] > PartEndIncl(req[w])
    /\ probe' = IF bytes_received[w] # bytes_expected(w)
                   THEN part_failed(part_completed(probe, req[w]), req[w])
                   ELSE part_completed(probe, req[w])
    /\ IF bytes_received[w] # bytes_expected(w)
         THEN /\ err' = [err EXCEPT ![w] = ErrWrongCount]
              /\ pc' = [pc EXCEPT ![w] = "send_err"]
              /\ UNCHANGED << attempts, fetches >>
         ELSE /\ pc' = [pc EXCEPT ![w] = "recv"]
              /\ attempts' = [attempts EXCEPT ![w] = 0]
              /\ fetches' = [fetches EXCEPT ![w] = 0]
              /\ UNCHANGED err
    /\ UNCHANGED << results, chunk_index, offset_in_range, bytes_received,
                    anomalies, stream_pos, last_outcome, resumed_at >>
    /\ UNCHANGED << cfg, request, is_failed, session, accepted, dispVars, queue, receiver_alive, req, completed, panicking,
                    kill_switch, counter, rx_state, consumerVars, eventVars, exit_err,
                    cancelled, first_fetch, max_attempts, size_call >>

\* ------------------------------------------------------------ PartStream
\* The PartStream over the ChunkStream: a cursor on the next part to emit,
\* the chunks buffered for other parts in the order they arrived, the chunks
\* emitted so far, and whether the stream has ended.
PartStreamNew == [cursor |-> 0, buffered |-> << >>, out |-> << >>, closed |-> FALSE]

\* Chunk::is_last
is_last(chunk) == chunk.bytes_left = 0

\* The sequence without its element at position i.
RemoveAt(seq, i) == SubSeq(seq, 1, i - 1) \o SubSeq(seq, i + 1, Len(seq))

\* Emit the buffered chunks of the part under the cursor in the order they
\* arrived; the last chunk of the part moves the cursor to the next part.
RECURSIVE Emit(_)
Emit(st) ==
    LET ready == { i \in DOMAIN st.buffered : st.buffered[i].part_index = st.cursor } IN
    IF ready = {} THEN st
    ELSE LET i == CHOOSE j \in ready : \A k \in ready : j <= k
             c == st.buffered[i]
         IN Emit([ st EXCEPT !.out = Append(@, c),
                             !.buffered = RemoveAt(@, i),
                             !.cursor = IF is_last(c) THEN @ + 1 ELSE @ ])

\* The PartStream takes one item of the ChunkStream: a chunk is buffered
\* under its part and what can be emitted is emitted; an error or the end of
\* the ChunkStream ends the PartStream.
PartStreamTake(st, item) ==
    IF st.closed THEN st
    ELSE IF item.tag = "chunk"
    THEN Emit([ st EXCEPT !.buffered = Append(@, item.chunk) ])
    ELSE [ st EXCEPT !.closed = TRUE ]

\* The PartStream after the first k items of the ChunkStream.
RECURSIVE PartStreamAfter(_, _)
PartStreamAfter(seq, k) ==
    IF k = 0 THEN PartStreamNew
    ELSE PartStreamTake(PartStreamAfter(seq, k - 1), seq[k])

\* What the PartStream has emitted so far.
PartStreamOut == PartStreamAfter(delivered, Len(delivered)).out

\* ------------------------------------------------------------ download_range
GetSizeModes == {"Always", "Required", "Default"}

\* GetSizeMode::is_load_size_enforced
is_load_size_enforced(mode, always_by_default) ==
    CASE mode = "Always" -> TRUE
      [] mode = "Required" -> FALSE
      [] OTHER -> always_by_default

\* The range descriptors: the full object, [a, oo), the last a bytes, and
\* [a, b] with a <= b.
RangeDescriptors ==
    { [kind |-> "full", a |-> 0, b |-> 0] }
      \cup [ kind : {"from", "last"}, a : 0 .. MaxReqOffset, b : {0} ]
      \cup { r \in [ kind : {"closed"}, a : 0 .. MaxReqOffset, b : 0 .. MaxReqOffset ] :
               r.a <= r.b }

\* The size of the BLOB is asked for: always for an open or suffix range,
\* for a closed range when the size mode enforces it.
NeedsSize(r) ==
    \/ r.range.kind # "closed"
    \/ is_load_size_enforced(r.get_size_mode, r.always_get_size)

\* A faulty variant of Resolved: the upper bound of a closed range is taken
\* as given.
Resolved_Unclamped(range, size, size_known) ==
    CASE range.kind = "full" -> [start |-> 0, len |-> size]
      [] range.kind = "from" ->
           [start |-> range.a, len |-> IF range.a < size THEN size - range.a ELSE 0]
      [] range.kind = "last" ->
           [start |-> IF range.a < size THEN size - range.a ELSE 0,
            len |-> Min(range.a, size)]
      [] OTHER -> [start |-> range.a, len |-> range.b - range.a + 1]

\* The inclusive range that is downloaded, as its start and its length;
\* length 0: there is nothing to download. A closed range is cut at the end
\* of the BLOB when the size is known.
Resolved(range, size, size_known) ==
    CASE range.kind = "full" -> [start |-> 0, len |-> size]
      [] range.kind = "from" ->
           [start |-> range.a, len |-> IF range.a < size THEN size - range.a ELSE 0]
      [] range.kind = "last" ->
           [start |-> IF range.a < size THEN size - range.a ELSE 0,
            len |-> Min(range.a, size)]
      [] OTHER ->
           IF ~size_known THEN [start |-> range.a, len |-> range.b - range.a + 1]
           ELSE IF range.a >= size THEN [start |-> range.a, len |-> 0]
           ELSE [start |-> range.a, len |-> Min(range.b, size - 1) - range.a + 1]

\* A faulty variant of empty: the stream is left open.
empty_Open == [is_closed |-> FALSE, rx_state |-> "open", bytes_hint |-> new_exact(0)]

\* ChunkStream::empty: a stream with the hint (0, Some(0)), is_closed set
\* and the receiver closed; its sender is dropped at once.
empty == [is_closed |-> TRUE, rx_state |-> "closed", bytes_hint |-> new_exact(0)]

\* download_range has handed a stream of chunks to the caller.
Started == request.phase = "started"

\* download_range has handed a stream to the caller.
HasStream == request.phase \in {"started", "empty"}

\* download_range: the size of the BLOB is asked for if needed, and the
\* error of a failed size call is returned. With nothing to download,
\* ChunkStream::empty() is returned; otherwise download_chunks creates the
\* ChunkStream with the exact hint and spawns the workers.
DownloadRange ==
    /\ request.phase = "new"
    /\ LET needs == NeedsSize(request)
           r == Resolved(request.range, request.blob_size, needs)
       IN
         \/ /\ needs
            /\ \E kind \in AdapterErrorKinds :
                 size_call' = [pc |-> "failed", attempts |-> 0, outcome |-> kind]
            /\ request' = [request EXCEPT !.phase = "failed"]
            /\ UNCHANGED << cfg, pc, counter, is_closed, rx_state, bytes_hint >>
         \/ /\ size_call' = IF needs
                              THEN [pc |-> "ok", attempts |-> 0, outcome |-> "ok"]
                              ELSE [pc |-> "skipped", attempts |-> 0, outcome |-> "none"]
            /\ IF r.len = 0
                 THEN /\ request' = [request EXCEPT !.phase = "empty"]
                      /\ is_closed' = empty.is_closed
                      /\ rx_state' = empty.rx_state
                      /\ bytes_hint' = empty.bytes_hint
                      /\ UNCHANGED << cfg, pc, counter >>
                 ELSE /\ request' = [request EXCEPT !.phase = "started"]
                      /\ cfg' = [cfg EXCEPT !.range_start = r.start, !.range_len = r.len]
                      /\ pc' = [ w \in Workers |-> "recv" ]
                      /\ counter' = cfg.n_concurrent
                      /\ bytes_hint' = new_exact(r.len)
                      /\ UNCHANGED << is_closed, rx_state >>
    /\ UNCHANGED << probe, accepted, is_failed, session, dispVars, queue, receiver_alive, partVars, completed, err,
                    panicking, kill_switch, results, is_fresh, delivered, n_read,
                    buffer, vec_result, whole_call, eventVars, exit_err, cancelled,
                    anomalies, first_fetch, max_attempts, attempts, resumed_at,
                    stream_pos, fetches, last_outcome >>

\* ------------------------------------------------ machinery/downloaders.rs
\* The Downloader/DownloadersWatcher variant: the same dispatcher loop over
\* Downloaders whose worker task owns a DownloadersWatcher instead of a
\* DownloaderContext. Everything but the worker task itself is left to the
\* variables they share with the variant above.

\* One iteration of the enqueue loop with Downloader::enqueue: Err(()) when
\* the Kill Switch is pushed; else try_send, which pushes the button and
\* gives Err(()) when the receiver is closed or dropped, hands the request
\* back when the queue is full and accepts it otherwise. On Err(()) the
\* dispatcher pushes the button and returns the error.
DownloadersEnqueue ==
    /\ disp_pc = "loop"
    /\ LET idx == TargetIdx
           tried == (IF ReportsQueueFull THEN {} ELSE lap.tried) \cup {idx}
       IN
         IF is_pushed \/ ~receiver_alive[idx]
           THEN /\ push_the_button
                /\ disp_pc' = "dropped"
                /\ disp_result' = "err"
                /\ lap' = [tried |-> tried, report |-> QueueFullReport]
                /\ UNCHANGED << queue, disp_counter, attempt, range_request, next_part,
                                accepted >>
           ELSE IF Len(queue[idx]) >= QueueCapacity
           THEN /\ attempt' = NextAttempt
                /\ lap' = [tried |-> tried, report |-> QueueFullReport]
                /\ UNCHANGED << queue, disp_pc, disp_counter, disp_result, kill_switch,
                                range_request, next_part, accepted >>
           ELSE /\ queue' = [queue EXCEPT ![idx] = Append(@, range_request)]
                /\ accepted' = [accepted EXCEPT ![idx] = Append(@, range_request)]
                /\ disp_counter' = disp_counter + 1
                /\ PullNext
                /\ lap' = [tried |-> {}, report |-> QueueFullReport]
                /\ UNCHANGED kill_switch
    /\ UNCHANGED << cfg, request, is_failed, session, probe, pc, receiver_alive, partVars,
                    completed, err, panicking, counter, results, rx_state,
                    consumerVars, eventVars, exit_err,
                    cancelled, adapterVars >>

\* request_receiver.next().await: the next request, or None once the
\* dispatcher has dropped the sender and the queue is drained, which ends
\* the loop and drops the watcher.
DownloaderNext(w) ==
    /\ pc[w] = "recv"
    /\ IF queue[w] # << >>
         THEN /\ req' = [req EXCEPT ![w] = Head(queue[w])]
              /\ queue' = [queue EXCEPT ![w] = Tail(queue[w])]
              /\ pc' = [pc EXCEPT ![w] = "check"]
         ELSE /\ disp_pc = "dropped"
              /\ pc' = [pc EXCEPT ![w] = "drop_dec"]
              /\ UNCHANGED << req, queue >>
    /\ UNCHANGED << cfg, request, is_failed, session, probe, accepted, dispVars, receiver_alive,
                    chunk_index, offset_in_range, bytes_received, completed, err,
                    panicking, kill_switch, counter, results, rx_state,
                    consumerVars, eventVars, exit_err, cancelled, adapterVars >>

\* if kill_switch.is_pushed() { break; }
DownloaderCheckKillSwitch(w) ==
    /\ pc[w] = "check"
    /\ pc' = [pc EXCEPT ![w] = IF is_pushed THEN "drop_dec" ELSE "fetch"]
    /\ UNCHANGED << cfg, request, is_failed, session, probe, accepted, dispVars, queue,
                    receiver_alive, partVars, completed, err, panicking,
                    kill_switch, counter, results, rx_state, consumerVars,
                    eventVars, exit_err, cancelled, adapterVars >>

\* client.download(location, Range(blob_range)).await: a byte stream, on
\* which consume_and_dispatch_bytes starts with part_started, or an error.
DownloaderFetch(w) ==
    /\ pc[w] = "fetch"
    /\ \E outcome \in {"ok"} \cup FetchErrorKinds :
         /\ outcome # "ok" => anomalies < MaxAnomalies
         /\ anomalies' = IF outcome = "ok" THEN anomalies ELSE anomalies + 1
         /\ IF outcome = "ok"
              THEN /\ pc' = [pc EXCEPT ![w] = "stream"]
                   /\ chunk_index' = [chunk_index EXCEPT ![w] = 0]
                   /\ offset_in_range' = [offset_in_range EXCEPT ![w] = 0]
                   /\ bytes_received' = [bytes_received EXCEPT ![w] = 0]
                   /\ probe' = part_started(probe, req[w])
                   /\ UNCHANGED err
              ELSE /\ pc' = [pc EXCEPT ![w] = "failed"]
                   /\ err' = [err EXCEPT ![w] = ErrFetch(outcome)]
                   /\ UNCHANGED << probe, chunk_index, offset_in_range, bytes_received >>
    /\ UNCHANGED << cfg, request, is_failed, session, accepted, dispVars, queue, receiver_alive,
                    req, completed, panicking, kill_switch, counter, results,
                    rx_state, consumerVars, eventVars, exit_err, cancelled,
                    first_fetch, retryVars >>

\* bytes_stream.next() yields Some(Ok(bytes)): too many bytes send the error
\* and end the part with Err(()); else chunk_completed and the chunk is
\* sent, which ends the part with Err(()) when the receiver is gone.
DownloaderStreamBytes(w) ==
    /\ pc[w] = "stream"
    /\ \E n \in 0 .. MaxBufLen :
         /\ (n = 0 \/ bytes_received[w] + n > bytes_expected(w)) => anomalies < MaxAnomalies
         /\ anomalies' = IF n = 0 \/ bytes_received[w] + n > bytes_expected(w)
                           THEN anomalies + 1 ELSE anomalies
         /\ bytes_received' = [bytes_received EXCEPT ![w] = @ + n]
         /\ IF bytes_received[w] + n > bytes_expected(w)
              THEN /\ results' = IF CanSend THEN Append(results, ErrItem(ErrTooMany)) ELSE results
                   /\ exit_err' = [exit_err EXCEPT ![w] = ErrTooMany]
                   /\ pc' = [pc EXCEPT ![w] = "failed"]
                   /\ UNCHANGED << probe, chunk_index, offset_in_range >>
              ELSE /\ probe' = chunk_completed(probe, req[w])
                   /\ UNCHANGED exit_err
                   /\ IF CanSend
                        THEN /\ results' = Append(results, ChunkItem(MakeChunk(w, n)))
                             /\ chunk_index' = [chunk_index EXCEPT ![w] = @ + 1]
                             /\ offset_in_range' = [offset_in_range EXCEPT ![w] = @ + n]
                             /\ UNCHANGED pc
                        ELSE /\ pc' = [pc EXCEPT ![w] = "failed"]
                             /\ UNCHANGED << results, chunk_index, offset_in_range >>
    /\ UNCHANGED << cfg, request, is_failed, session, accepted, dispVars, queue, receiver_alive,
                    req, completed, err, panicking, kill_switch, counter, rx_state,
                    consumerVars, eventVars, cancelled, first_fetch, retryVars >>

\* bytes_stream.next() yields Some(Err(IoError)): the error is sent and the
\* part ends with Err(()).
DownloaderStreamIoError(w) ==
    /\ pc[w] = "stream"
    /\ anomalies < MaxAnomalies
    /\ anomalies' = anomalies + 1
    /\ results' = IF CanSend THEN Append(results, ErrItem(ErrIo)) ELSE results
    /\ exit_err' = [exit_err EXCEPT ![w] = ErrIo]
    /\ pc' = [pc EXCEPT ![w] = "failed"]
    /\ UNCHANGED << cfg, request, is_failed, session, probe, accepted, dispVars, queue,
                    receiver_alive, partVars, completed, err, panicking,
                    kill_switch, counter, rx_state, consumerVars, eventVars,
                    cancelled, first_fetch, retryVars >>

\* bytes_stream.next() yields None: part_completed; a wrong byte count sends
\* the error and ends the part with Err(()), else the worker goes on with
\* its next request.
DownloaderStreamEnd(w) ==
    /\ pc[w] = "stream"
    /\ probe' = part_completed(probe, req[w])
    /\ IF bytes_received[w] # bytes_expected(w)
         THEN /\ anomalies < MaxAnomalies
              /\ anomalies' = anomalies + 1
              /\ results' = IF CanSend THEN Append(results, ErrItem(ErrWrongCount)) ELSE results
              /\ exit_err' = [exit_err EXCEPT ![w] = ErrWrongCount]
              /\ pc' = [pc EXCEPT ![w] = "failed"]
         ELSE /\ pc' = [pc EXCEPT ![w] = "recv"]
              /\ UNCHANGED << anomalies, results, exit_err >>
    /\ UNCHANGED << cfg, request, is_failed, session, accepted, dispVars, queue, receiver_alive,
                    partVars, completed, err, panicking, kill_switch, counter,
                    rx_state, consumerVars, eventVars, cancelled, first_fetch,
                    retryVars >>

\* The part has failed: kill_switch.push_the_button(), watcher.mark_failed()
\* and request_receiver.close(); the error of a failed fetch is still to be
\* sent, the error of a failed byte stream was sent before.
DownloaderFailed(w) ==
    /\ pc[w] = "failed"
    /\ push_the_button
    /\ is_failed' = [is_failed EXCEPT ![w] = TRUE]
    /\ receiver_alive' = [receiver_alive EXCEPT ![w] = FALSE]
    /\ pc' = [pc EXCEPT ![w] = IF err[w] # NoErr THEN "send_err" ELSE "drop_dec"]
    /\ UNCHANGED << cfg, request, session, probe, accepted, dispVars, queue, partVars,
                    completed, err, panicking, counter, results, rx_state,
                    consumerVars, eventVars, exit_err, cancelled, adapterVars >>

\* let _ = results_sender.unbounded_send(Err(err)); break
DownloaderSendErr(w) ==
    /\ pc[w] = "send_err"
    /\ results' = IF CanSend THEN Append(results, ErrItem(err[w])) ELSE results
    /\ exit_err' = [exit_err EXCEPT ![w] = err[w]]
    /\ pc' = [pc EXCEPT ![w] = "drop_dec"]
    /\ UNCHANGED << cfg, request, is_failed, session, probe, accepted, dispVars, queue,
                    receiver_alive, partVars, completed, err, panicking,
                    kill_switch, counter, rx_state, consumerVars, eventVars,
                    cancelled, adapterVars >>

\* Drop for DownloadersWatcher: self.counter.fetch_sub(1)
WatcherDropDecrement(w) ==
    /\ pc[w] = "drop_dec"
    /\ counter' = counter - 1
    /\ pc' = [pc EXCEPT ![w] = "drop_load"]
    /\ UNCHANGED << cfg, request, is_failed, session, probe, accepted, dispVars, queue,
                    receiver_alive, partVars, completed, err, panicking,
                    kill_switch, results, rx_state, consumerVars, eventVars,
                    exit_err, cancelled, adapterVars >>

\* Drop for DownloadersWatcher: if self.counter.load() == 0, download_failed
\* when the watcher's own is_failed is set and download_completed otherwise;
\* the task then ends, which drops its request receiver and result sender.
WatcherDropLoad(w) ==
    /\ pc[w] = "drop_load"
    /\ IF counter = 0
         THEN IF is_failed[w]
                THEN /\ failed_events' = failed_events + 1
                     /\ UNCHANGED completed_events
                ELSE /\ completed_events' = completed_events + 1
                     /\ UNCHANGED failed_events
         ELSE UNCHANGED << completed_events, failed_events >>
    /\ receiver_alive' = [receiver_alive EXCEPT ![w] = FALSE]
    /\ pc' = [pc EXCEPT ![w] = "done"]
    /\ UNCHANGED << cfg, request, is_failed, session, probe, accepted, dispVars, queue, partVars,
                    completed, err, panicking, kill_switch, counter, results,
                    rx_state, consumerVars, panic_detected, exit_err, cancelled,
                    adapterVars >>

\* ------------------------------------------------------ download_session.rs
\* A reporter is the sequence of the plain reporters an event is handed to.

\* self.reporter_factory.make(&location): a reporter made by the session's factory
make == << "factory" >>

\* CompositeReporter(a, b) hands every event to a and to b
CompositeReporter(a, b) == a \o b

\* DownloadSession::download_chunks_wrep: the reporter handed to machinery::download
download_chunks_wrep(reporter) == CompositeReporter(make, reporter)

\* DownloadSession::download_wrep, which goes on with download_chunks_wrep
download_wrep(reporter) == download_chunks_wrep(CompositeReporter(make, reporter))

\* DownloadSession::download_chunks_rep, which goes on with download_chunks_wrep
download_chunks_rep == download_chunks_wrep(make)

\* DownloadSession::download_rep, which goes on with download_wrep
download_rep == download_wrep(make)

\* DownloadSession::download_chunks: the reporter handed to machinery::download
download_chunks == make

\* DownloadSession::download, which goes on with download_chunks
download == download_chunks

\* The reporter the download of an operation reports to, the caller passing
\* a reporter of its own to the _wrep methods
SessionReporter(op) ==
    CASE op = "download" -> download
      [] op = "download_chunks" -> download_chunks
      [] op = "download_rep" -> download_rep
      [] op = "download_chunks_rep" -> download_chunks_rep
      [] op = "download_wrep" -> download_wrep(<< "given" >>)
      [] op = "download_chunks_wrep" -> download_chunks_wrep(<< "given" >>)

\* The reporters among those of r that the factory has made
FactoryMade(r) == Cardinality({ i \in 1 .. Len(r) : r[i] = "factory" })

\* A download operation of the session has been called
SessionCalled == session.op # "none"

\* One call of a download operation of the session: the reporter is put
\* together and the download is started with it.
SessionCall(op) ==
    /\ ~SessionCalled
    /\ session' = [op |-> op, reporter |-> SessionReporter(op)]
    /\ UNCHANGED << cfg, request, is_failed, probe, accepted, dispVars, pc, queue,
                    receiver_alive, partVars, completed, err, panicking,
                    kill_switch, counter, results, rx_state, consumerVars,
                    eventVars, exit_err, cancelled, adapterVars >>

\* ------------------------------------------------------------ specification
Next ==
    \/ DispatcherStart
    \/ DispatcherEnqueue
    \/ \E w \in Workers : WorkerNext(w)
    \/ \E w \in Workers : WorkerCheckKillSwitch(w)
    \/ \E w \in Workers : WorkerFetch(w)
    \/ \E w \in Workers : WorkerStreamBytes(w)
    \/ \E w \in Workers : WorkerStreamIoError(w)
    \/ \E w \in Workers : WorkerStreamEnd(w)
    \/ \E w \in Workers : WorkerStreamPanic(w)
    \/ \E w \in Workers : WorkerSendErr(w)
    \/ \E w \in Workers : WorkerSendErrArm(w)
    \/ \E w \in Workers : WorkerSendFailed(w)
    \/ \E w \in Workers : ContextDrop(w)
    \/ \E w \in Workers : ContextDropSendErr(w)
    \/ \E w \in Workers : ContextDropDecrement(w)
    \/ \E w \in Workers : ContextDropLoad(w)
    \/ ConsumerPoll
    \/ ConsumerDrop

Init == InitWith({"poll"})

Spec == Init /\ [][Next]_vars

\* The same download consumed by ChunkStream::into_vec.
InitIntoVec == InitWith({"into_vec"})

SpecIntoVec == InitIntoVec /\ [][Next]_vars

\* Every step a worker task and its context can take.
WorkerStep(w) ==
    \/ WorkerNext(w)
    \/ WorkerCheckKillSwitch(w)
    \/ WorkerFetch(w)
    \/ WorkerStreamBytes(w)
    \/ WorkerStreamIoError(w)
    \/ WorkerStreamEnd(w)
    \/ WorkerStreamPanic(w)
    \/ WorkerSendErr(w)
    \/ WorkerSendErrArm(w)
    \/ WorkerSendFailed(w)
    \/ ContextDrop(w)
    \/ ContextDropSendErr(w)
    \/ ContextDropDecrement(w)
    \/ ContextDropLoad(w)

\* The runtime schedules every spawned worker task and the dispatcher, the
\* adapter answers every call, and the consumer keeps polling unless it
\* drops the stream.
Fairness ==
    /\ WF_vars(DispatcherStart)
    /\ WF_vars(DispatcherEnqueue)
    /\ \A w \in 0 .. (MaxConcurrency - 1) : WF_vars(w \in Workers /\ WorkerStep(w))
    /\ WF_vars(ConsumerPoll)

FairSpec == Init /\ [][Next]_vars /\ Fairness

\* A download through the retry layer (configure_retries), consumed by
\* ChunkStream::into_vec.
RetryNext ==
    \/ RetryGetSize
    \/ SizeResolved /\ DispatcherStart
    \/ DispatcherEnqueue
    \/ \E w \in Workers : WorkerNext(w)
    \/ \E w \in Workers : WorkerCheckKillSwitch(w)
    \/ \E w \in Workers : RetryFetch(w)
    \/ \E w \in Workers : RetryStreamBytes(w)
    \/ \E w \in Workers : RetryStreamFailure(w)
    \/ \E w \in Workers : RetryRefetch(w)
    \/ \E w \in Workers : RetryStreamPanic(w)
    \/ \E w \in Workers : RetryStreamEnd(w)
    \/ \E w \in Workers : WorkerSendErr(w)
    \/ \E w \in Workers : WorkerSendErrArm(w)
    \/ \E w \in Workers : WorkerSendFailed(w)
    \/ \E w \in Workers : ContextDrop(w)
    \/ \E w \in Workers : ContextDropSendErr(w)
    \/ \E w \in Workers : ContextDropDecrement(w)
    \/ \E w \in Workers : ContextDropLoad(w)
    \/ SizeResolved /\ ConsumerPoll
    \/ SizeResolved /\ ConsumerDrop

RetryInit == InitDownload(DownloadConfigs({"into_vec"}, 1 .. MaxConcurrency), 1 .. MaxAttempts, {"calling"})

RetrySpec == RetryInit /\ [][RetryNext]_vars

\* The requests of the model: every range descriptor, BLOB size and size
\* mode up to the bounds.
Requests ==
    [ phase : {"new"},
      range : RangeDescriptors,
      blob_size : 0 .. MaxBlobSize,
      get_size_mode : GetSizeModes,
      always_get_size : BOOLEAN ]

\* Condow::download_chunks is called: nothing is resolved, no stream exists
\* and no worker is spawned.
DownloadRangeInit ==
    /\ cfg \in [ range_start : {0}, range_len : {0}, part_size : {MaxPartSize},
                 n_concurrent : {1}, mode : {"poll"} ]
    /\ max_attempts = 0
    /\ size_call = [pc |-> "undecided", attempts |-> 0, outcome |-> "none"]
    /\ InitCommon
    /\ pc = [ w \in Workers |-> "unspawned" ]
    /\ counter = 0
    /\ results = << >>
    /\ rx_state = "open"
    /\ is_closed = FALSE
    /\ bytes_hint = new_exact(0)
    /\ buffer = << >>
    /\ request \in Requests
    /\ whole_call = NoCall

\* download_range, then the download it has started and the consumer of
\* the stream it has returned.
DownloadRangeNext ==
    \/ DownloadRange
    \/ Started /\ DispatcherStart
    \/ DispatcherEnqueue
    \/ \E w \in Workers : WorkerNext(w)
    \/ \E w \in Workers : WorkerCheckKillSwitch(w)
    \/ \E w \in Workers : WorkerFetch(w)
    \/ \E w \in Workers : WorkerStreamBytes(w)
    \/ \E w \in Workers : WorkerStreamIoError(w)
    \/ \E w \in Workers : WorkerStreamEnd(w)
    \/ \E w \in Workers : WorkerStreamPanic(w)
    \/ \E w \in Workers : WorkerSendErr(w)
    \/ \E w \in Workers : WorkerSendErrArm(w)
    \/ \E w \in Workers : WorkerSendFailed(w)
    \/ \E w \in Workers : ContextDrop(w)
    \/ \E w \in Workers : ContextDropSendErr(w)
    \/ \E w \in Workers : ContextDropDecrement(w)
    \/ \E w \in Workers : ContextDropLoad(w)
    \/ HasStream /\ ConsumerPoll
    \/ Started /\ ConsumerDrop

DownloadRangeSpec == DownloadRangeInit /\ [][DownloadRangeNext]_vars

\* The chunk of len bytes at an offset of the range, as a test puts it on
\* the channel of a stream; its bytes tell the chunks apart.
StreamChunk(off, len) ==
    [ part_index |-> off,
      chunk_index |-> 0,
      blob_offset |-> off,
      range_offset |-> off,
      bytes |-> [ i \in 1 .. len |-> 16 + 4 * off + i ],
      bytes_left |-> 0 ]

\* The items put on the channel of the stream.
StreamItems ==
    { ChunkItem(StreamChunk(off, len)) : off \in 0 .. MaxChunkOffset, len \in 0 .. MaxChunkLen }
      \cup { ErrItem(ErrIo) }

\* The sequences of at most n items.
ItemSeqs(n) == UNION { [ 1 .. k -> StreamItems ] : k \in 0 .. n }

\* BytesHint::new: every pair of a lower bound and an upper bound.
BytesHints ==
    [ lower : 0 .. MaxHint, has_upper : {TRUE}, upper : 0 .. MaxHint ]
      \cup [ lower : 0 .. MaxHint, has_upper : {FALSE}, upper : {0} ]

\* The buffer a caller hands to write_buffer.
CallerBuffer(len) == [ i \in 1 .. len |-> 200 + i ]

\* ChunkStream::new(bytes_hint), the items sent through the sender and the
\* sender dropped: a stream with no download behind it.
StreamInit ==
    /\ cfg \in [ range_start : {0}, range_len : {0}, part_size : {1},
                 n_concurrent : {1}, mode : {"poll"} ]
    /\ max_attempts = 0
    /\ size_call = [pc |-> "skipped", attempts |-> 0, outcome |-> "none"]
    /\ InitCommon
    /\ pc = [ w \in Workers |-> "done" ]
    /\ counter = 0
    /\ results \in ItemSeqs(MaxItems)
    /\ rx_state = "open"
    /\ is_closed = FALSE
    /\ bytes_hint \in BytesHints
    /\ buffer \in { CallerBuffer(len) : len \in 0 .. MaxCallerBuffer }
    /\ request = NoRequest
    /\ whole_call = NoCall

\* The consumer polls the stream, or calls a whole-stream method, at any
\* time.
StreamNext ==
    \/ ConsumerPoll
    \/ \E method \in WholeMethods : WholeStreamCall(method)

StreamSpec == StreamInit /\ [][StreamNext]_vars

\* The download of the Downloader/DownloadersWatcher variant
\* (download_concurrently), consumed by polling the stream.
DownloadersNext ==
    \/ DispatcherStart
    \/ DownloadersEnqueue
    \/ \E w \in Workers : DownloaderNext(w)
    \/ \E w \in Workers : DownloaderCheckKillSwitch(w)
    \/ \E w \in Workers : DownloaderFetch(w)
    \/ \E w \in Workers : DownloaderStreamBytes(w)
    \/ \E w \in Workers : DownloaderStreamIoError(w)
    \/ \E w \in Workers : DownloaderStreamEnd(w)
    \/ \E w \in Workers : DownloaderFailed(w)
    \/ \E w \in Workers : DownloaderSendErr(w)
    \/ \E w \in Workers : WatcherDropDecrement(w)
    \/ \E w \in Workers : WatcherDropLoad(w)
    \/ ConsumerPoll
    \/ ConsumerDrop

DownloadersSpec == Init /\ [][DownloadersNext]_vars

\* One download operation of a DownloadSession and the download it starts,
\* with one worker.
SessionInit == InitDownload(DownloadConfigs({"poll"}, {1}), {0}, {"skipped"})

SessionNext ==
    \/ \E op \in { "download", "download_chunks", "download_rep", "download_chunks_rep",
                   "download_wrep", "download_chunks_wrep" } : SessionCall(op)
    \/ SessionCalled /\ DispatcherStart
    \/ DispatcherEnqueue
    \/ \E w \in Workers : WorkerNext(w)
    \/ \E w \in Workers : WorkerCheckKillSwitch(w)
    \/ \E w \in Workers : WorkerFetch(w)
    \/ \E w \in Workers : WorkerStreamBytes(w)
    \/ \E w \in Workers : WorkerStreamIoError(w)
    \/ \E w \in Workers : WorkerStreamEnd(w)
    \/ \E w \in Workers : WorkerStreamPanic(w)
    \/ \E w \in Workers : WorkerSendErr(w)
    \/ \E w \in Workers : WorkerSendErrArm(w)
    \/ \E w \in Workers : WorkerSendFailed(w)
    \/ \E w \in Workers : ContextDrop(w)
    \/ \E w \in Workers : ContextDropSendErr(w)
    \/ \E w \in Workers : ContextDropDecrement(w)
    \/ \E w \in Workers : ContextDropLoad(w)
    \/ SessionCalled /\ ConsumerPoll
    \/ SessionCalled /\ ConsumerDrop

SessionSpec == SessionInit /\ [][SessionNext]_vars

\* The download with a single worker (max_concurrency = 1), over ranges
\* shorter than, as long as and longer than one part.
SingleWorkerInit ==
    InitDownload([ range_start : {MaxRangeStart},
                   range_len : 1 .. MaxRangeLen,
                   part_size : {MaxPartSize},
                   n_concurrent : {1},
                   mode : {"poll"} ], {0}, {"skipped"})

SingleWorkerSpec == SingleWorkerInit /\ [][Next]_vars

\* The planner alone, over every range and part size up to the bounds.
PlannerConfigs ==
    [ range_start : 0 .. MaxPlanStart,
      range_len : 1 .. MaxPlanLen,
      part_size : 1 .. MaxPlanPartSize,
      n_concurrent : {1},
      mode : {"poll"} ]

PlannerInit == InitDownload(PlannerConfigs, {0}, {"skipped"})

\* ranges_stream.next() yields the next part request while parts are left.
PlannerNext ==
    /\ next_part < NParts
    /\ range_request' = next_part
    /\ next_part' = next_part + 1
    /\ UNCHANGED << cfg, request, is_failed, session, probe, accepted, disp_pc, disp_counter, attempt, disp_result, lap, pc, queue,
                    receiver_alive, partVars, completed, err, panicking,
                    kill_switch, counter, results, rx_state, consumerVars,
                    eventVars, exit_err, cancelled, adapterVars >>

PlannerSpec == PlannerInit /\ [][PlannerNext]_vars

\* The part request with part index i.
RangeRequest(i) ==
    [ part_index |-> i,
      start |-> PartStart(i),
      end_incl |-> PartEndIncl(i),
      range_offset |-> PartRangeOffset(i) ]

\* The part requests the planner has yielded so far, in order.
Planned == [ k \in 1 .. next_part |-> RangeRequest(k - 1) ]

\* ------------------------------------------------------------ properties
\* The positions of the chunks in a sequence of stream items.
ChunkPositions(seq) == { i \in DOMAIN seq : seq[i].tag = "chunk" }

\* The positions of the chunks of part p.
PartPositions(seq, p) == { i \in ChunkPositions(seq) : seq[i].chunk.part_index = p }

\* The number of error items in a sequence of stream items.
ErrorCount(seq) == Cardinality({ i \in DOMAIN seq : seq[i].tag = "err" })

\* The number of bytes of part p among the first k items.
RECURSIVE BytesBefore(_, _, _)
BytesBefore(seq, p, k) ==
    IF k = 0 THEN 0
    ELSE BytesBefore(seq, p, k - 1)
         + (IF seq[k].tag = "chunk" /\ seq[k].chunk.part_index = p
              THEN Len(seq[k].chunk.bytes) ELSE 0)

\* Chunk i comes before chunk j in (part_index, chunk_index) order.
ChunkOrder(seq, i, j) ==
    \/ seq[i].chunk.part_index < seq[j].chunk.part_index
    \/ /\ seq[i].chunk.part_index = seq[j].chunk.part_index
       /\ \/ seq[i].chunk.chunk_index < seq[j].chunk.chunk_index
          \/ seq[i].chunk.chunk_index = seq[j].chunk.chunk_index /\ i <= j

\* The bytes of the chunks at the positions S, concatenated in
\* (part_index, chunk_index) order.
RECURSIVE OrderedBytes(_, _)
OrderedBytes(seq, S) ==
    IF S = {} THEN << >>
    ELSE LET m == CHOOSE i \in S : \A j \in S : ChunkOrder(seq, i, j)
         IN seq[m].chunk.bytes \o OrderedBytes(seq, S \ {m})

\* The bytes of the object over the requested range.
RangeBytes == BlobBytes(cfg.range_start, cfg.range_len)

\* The number of terminal events emitted so far.
TerminalEvents == completed_events + failed_events

\* Some worker met a failure of its own: an adapter error, a wrong byte
\* count, a panic, or the armed Kill Switch.
WorkerFailed == \E w \in Workers : panicking[w] \/ err[w] # NoErr

\* C1: a download emits exactly one terminal event, download_completed or
\* download_failed: never both, never one of them twice, and not none once
\* every context is dropped.
C1_ExactlyOneTerminalEvent ==
    /\ TerminalEvents <= 1
    /\ SendersGone => TerminalEvents = 1

\* C2: after a successful download the chunks the consumer received,
\* concatenated in (part_index, chunk_index) order, are the bytes of the
\* object over the requested range, and the buffer into_vec returns holds
\* exactly those bytes.
C2_SuccessfulDownloadYieldsRangeBytes ==
    vec_result = "ok" =>
        /\ OrderedBytes(delivered, ChunkPositions(delivered)) = RangeBytes
        /\ buffer = RangeBytes

\* into_vec succeeded on chunks that arrived out of part order, one part
\* split into several chunks.
C2_Witness ==
    /\ vec_result = "ok"
    /\ \E i, j \in ChunkPositions(delivered) :
         i < j /\ delivered[i].chunk.part_index > delivered[j].chunk.part_index
    /\ \E i \in ChunkPositions(delivered) : delivered[i].chunk.chunk_index > 0

\* C3: once the stream has yielded an error item it yields no further item:
\* every later poll answers end-of-stream.
C3_NothingAfterError ==
    \A i, j \in DOMAIN delivered :
        (i < j /\ delivered[i].tag = "err") => delivered[j] = Eos

\* The consumer polled again after an error while further items were
\* queued behind it.
C3_Witness ==
    /\ \E i \in DOMAIN delivered : delivered[i].tag = "err" /\ i < Len(delivered)
    /\ n_read < Len(results)

\* A fatal path was taken: a worker failed, the dispatcher found a worker
\* gone, or the Kill Switch is armed.
FatalPath == WorkerFailed \/ disp_result = "err" \/ kill_switch

\* The consumer got exactly one error item and, after it, end-of-stream.
OneErrorThenEos ==
    /\ ErrorCount(delivered) = 1
    /\ delivered[Len(delivered)] = Eos

\* C4: every fatal path of a download delivers exactly one error item,
\* followed by end-of-stream, to a consumer that keeps polling: never more
\* than one error item, and never none.
C4_FatalPathDeliversOneError ==
    /\ [](ErrorCount(delivered) <= 1)
    /\ FatalPath ~> (rx_state = "dropped" \/ OneErrorThenEos)

\* A worker panicked, a second worker failed after it, and the consumer got
\* one error item and then end-of-stream.
C4_Witness ==
    /\ \E w \in Workers : exit_err[w] = ErrPanic
    /\ ErrorCount(results) > 1
    /\ OneErrorThenEos

C6_KillSwitchSelectsTerminalEvent ==
    [][/\ failed_events' # failed_events => kill_switch
       /\ completed_events' # completed_events =>
            /\ ~kill_switch
            /\ ErrorCount(results) = 0
            /\ \A w \in Workers : exit_err[w] = NoErr /\ completed[w]]_vars

\* download_completed was emitted after chunks of every part were pushed.
C6_Witness ==
    /\ completed_events > 0
    /\ \A p \in 0 .. (NParts - 1) : PartPositions(results, p) # {}

EndedWell ==
    /\ SendersGone
    /\ \A w \in Workers : completed[w] /\ exit_err[w] = NoErr
    /\ is_closed
    /\ ErrorCount(delivered) = 0
    /\ delivered[Len(delivered)] = Eos
    /\ completed_events >= 1
    /\ failed_events = 0

\* C8: if the adapter serves every fetch completely and the consumer drains
\* the stream, the dispatcher gets through the planner and drops its
\* senders, every worker exits with completed = true, the stream yields
\* end-of-stream and download_completed is emitted.
C8_ServedDownloadTerminates ==
    <>(WorkerFailed \/ rx_state = "dropped" \/ (disp_pc = "dropped" /\ EndedWell))

\* A download ended well although the dispatcher had found a queue full.
C8_Witness ==
    /\ EndedWell
    /\ disp_pc = "dropped"
    /\ attempt > 1

\* C9: within one part the chunks enter the result channel in the order the
\* adapter produced the buffers, with chunk_index 0, 1, 2, ... and offsets
\* that continue where the chunk before ended, whatever chunks of other
\* parts come in between; the consumer gets them in that order.
C9_ChunksOfAPartInOrder ==
    /\ \A i \in ChunkPositions(results) :
         LET c == results[i].chunk
             p == c.part_index
         IN /\ c.chunk_index = Cardinality({ j \in PartPositions(results, p) : j < i })
            /\ c.blob_offset = PartStart(p) + BytesBefore(results, p, i - 1)
            /\ c.range_offset = c.blob_offset - cfg.range_start
            /\ c.bytes = BlobBytes(c.blob_offset, Len(c.bytes))
    /\ \A k \in 1 .. n_read : delivered[k] = results[k]

\* The consumer got two chunks of one part and a chunk of another part in
\* between.
C9_Witness ==
    \E i, j, k \in ChunkPositions(delivered) :
        /\ i < j /\ j < k
        /\ delivered[i].chunk.part_index = delivered[k].chunk.part_index
        /\ delivered[j].chunk.part_index # delivered[i].chunk.part_index

\* C10: for every part, whatever buffers the adapter yields (empty ones
\* too), the chunk with bytes_left = 0 is unique and is the last chunk of
\* the part, and the lengths of the chunks of the part add up to the length
\* of the part.
C10_LastChunkUnique ==
    \A i \in ChunkPositions(results) :
        LET c == results[i].chunk
            p == c.part_index
        IN c.bytes_left = 0 =>
             /\ \A j \in PartPositions(results, p) : j <= i
             /\ BytesBefore(results, p, Len(results)) = PartLen(p)

\* C11: every chunk the consumer received has blob_offset - A = range_offset
\* and ends within the range, and its bytes_left is the length of its part
\* minus the bytes of the part received up to and including it, which is
\* never negative.
C11_ChunkOffsetsAndBytesLeft ==
    \A i \in ChunkPositions(delivered) :
        LET c == delivered[i].chunk IN
        /\ c.blob_offset - cfg.range_start = c.range_offset
        /\ c.range_offset + Len(c.bytes) <= cfg.range_len
        /\ c.bytes_left = PartLen(c.part_index) - BytesBefore(delivered, c.part_index, i)
        /\ c.bytes_left >= 0

\* The consumer received the chunk that ends the range, a later chunk of a
\* later part, and a chunk that left bytes of its part to come.
C11_Witness ==
    /\ \E i \in ChunkPositions(delivered) :
         LET c == delivered[i].chunk IN
         /\ c.part_index > 0
         /\ c.chunk_index > 0
         /\ c.range_offset + Len(c.bytes) = cfg.range_len
    /\ \E i \in ChunkPositions(delivered) : delivered[i].chunk.bytes_left > 0

\* The bytes of a sequence of chunks, one after the other.
RECURSIVE ConcatBytes(_)
ConcatBytes(chunks) ==
    IF chunks = << >> THEN << >>
    ELSE Head(chunks).bytes \o ConcatBytes(Tail(chunks))

\* C12: a PartStream emits the parts in strictly increasing part_index
\* order starting at 0 and the chunks of each part in increasing
\* chunk_index order, however the chunks of different parts are interleaved
\* on the ChunkStream; the bytes emitted are in the order of the range.
C12_PartStreamInOrder ==
    LET out == PartStreamOut IN
    /\ out # << >> => (out[1].part_index = 0 /\ out[1].chunk_index = 0)
    /\ \A i \in 1 .. (Len(out) - 1) :
         \/ /\ out[i + 1].part_index = out[i].part_index
            /\ out[i + 1].chunk_index = out[i].chunk_index + 1
         \/ /\ out[i + 1].part_index = out[i].part_index + 1
            /\ out[i + 1].chunk_index = 0
    /\ ConcatBytes(out) = SubSeq(RangeBytes, 1, Len(ConcatBytes(out)))

\* The PartStream emitted the whole range although a chunk of a later part
\* had reached the ChunkStream before a chunk of an earlier part, and one
\* part came in several chunks.
C12_Witness ==
    /\ Len(ConcatBytes(PartStreamOut)) = cfg.range_len
    /\ \E i, j \in ChunkPositions(delivered) :
         i < j /\ delivered[i].chunk.part_index > delivered[j].chunk.part_index
    /\ \E i \in DOMAIN PartStreamOut : PartStreamOut[i].chunk_index > 0

\* The first client.download call failed with an error of the adapter, and
\* that is the only anomaly the adapter showed (the script of S4: one
\* failure, every other call is served).
FirstFetchFailed == first_fetch.outcome \in FetchErrorKinds /\ anomalies = 1

\* C13: with two workers and retries disabled, when the first fetch returns
\* an error of kind Other and every other call is served, the consumer
\* observes no chunk item at all and a single error item, of kind Other.
C13_FirstFetchFailureNoChunks ==
    (cfg.n_concurrent = 2 /\ FirstFetchFailed) =>
        /\ ChunkPositions(delivered) = {}
        /\ ErrorCount(delivered) <= 1
        /\ \A i \in DOMAIN delivered :
             delivered[i].tag = "err" => delivered[i].error.kind = "Other"

\* C13 as the code keeps it: when the first fetch returns an error of kind
\* Other and every other call is served, the consumer observes at most one
\* error item, which is that error of the adapter and follows every chunk
\* it observes, and no chunk of the part whose fetch failed; chunks of other
\* parts may come before the error.
C13_FirstFetchFailureOneError ==
    FirstFetchFailed =>
        /\ ErrorCount(delivered) <= 1
        /\ \A i \in DOMAIN delivered :
             delivered[i].tag = "err" =>
                 /\ delivered[i].error = ErrFetch(first_fetch.outcome)
                 /\ \A j \in ChunkPositions(delivered) : j < i
        /\ PartPositions(delivered, first_fetch.part) = {}

\* The first fetch failed, another worker's chunk reached the consumer and
\* then the error of the failed fetch did.
C13_Witness ==
    /\ cfg.n_concurrent = 2
    /\ FirstFetchFailed
    /\ ChunkPositions(delivered) # {}
    /\ \E i \in DOMAIN delivered : delivered[i].tag = "err"

\* The errors a worker sends for a failure of its own fetch or byte stream.
OwnErrors == {ErrIo, ErrTooMany, ErrWrongCount} \cup { ErrFetch(k) : k \in FetchErrorKinds }

\* No worker has panicked.
NoPanic == \A w \in Workers : ~panicking[w]

\* The positions of the first error item of a sequence of items.
FirstErrorPositions(seq) ==
    { i \in DOMAIN seq : seq[i].tag = "err" /\ \A j \in 1 .. (i - 1) : seq[j].tag # "err" }

\* C14: without a panic, the first error item in the result channel is the
\* own error of a worker whose fetch or byte stream failed (kind Io for a
\* failed byte stream, the adapter's kind for a failed fetch) and never
\* "another download task already failed"; it is the error the consumer
\* observes.
C14_FirstErrorIsOwnError ==
    NoPanic =>
        /\ \A i \in FirstErrorPositions(results) :
             /\ results[i].error \in OwnErrors
             /\ results[i].error # ErrAnother
             /\ \E w \in Workers : exit_err[w] = results[i].error
        /\ \A i \in DOMAIN delivered :
             delivered[i].tag = "err" =>
                 \E j \in FirstErrorPositions(results) : delivered[i] = results[j]

\* A byte stream failed, the other worker sent "another download task
\* already failed" after it, and the consumer observed the Io error.
C14_Witness ==
    /\ NoPanic
    /\ \E i, j \in DOMAIN results :
         /\ i < j
         /\ results[i] = ErrItem(ErrIo)
         /\ results[j] = ErrItem(ErrAnother)
    /\ \E i \in DOMAIN delivered : delivered[i] = ErrItem(ErrIo)

\* A worker panicked while it consumed its byte stream.
StreamPanicked == first_fetch.outcome # "panic" /\ \E w \in Workers : panicking[w]

\* C15: when a worker's byte stream panics, an error the consumer observes
\* is "download ended unexpectedly due to a panic" of kind Other,
\* panic_detected is not fired more often than there are panicked workers,
\* and once the drop of the panicked worker has run panic_detected was
\* fired and the Kill Switch is armed.
C15_PanicObservedAsPanicError ==
    StreamPanicked =>
        /\ \A i \in DOMAIN delivered :
             delivered[i].tag = "err" => delivered[i].error = ErrPanic
        /\ panic_detected <= Cardinality({ w \in Workers : panicking[w] })
        /\ \A w \in Workers :
             (panicking[w] /\ pc[w] \in {"drop_send", "drop_dec", "drop_load", "done"}) =>
                 (panic_detected >= 1 /\ kill_switch)

\* The adapter answered no call of another worker than w with a failure.
OnlyFailureOf(w) == \A v \in Workers \ {w} : last_outcome[v] \in {"none", "ok"}

\* C16: when the retried fetch or the resumed stream of a part panics after
\* the part's first byte stream failed, the panic is caught (the worker does
\* not unwind, no panic_detected), no further fetch is made for the part,
\* the worker's error is "panicked while retrying" of kind Io, and that is
\* the error the consumer observes when no other worker met a failure.
C16_PanicInRetryIsIoError ==
    \A w \in Workers :
        last_outcome[w] = "panic" =>
            /\ ~panicking[w]
            /\ panic_detected = 0
            /\ pc[w] \notin {"fetch", "refetch", "stream"}
            /\ err[w] = ErrPanicRetry
            /\ exit_err[w] \in {NoErr, ErrPanicRetry}
            /\ OnlyFailureOf(w) =>
                 \A i \in DOMAIN delivered :
                     delivered[i].tag = "err" => delivered[i].error = ErrPanicRetry

\* One worker, one retry allowed: the consumer received a chunk of the part,
\* the stream failed, the retry panicked and into_vec ended with
\* "panicked while retrying".
C16_Witness ==
    /\ cfg.n_concurrent = 1
    /\ max_attempts = 1
    /\ last_outcome[0] = "panic"
    /\ ChunkPositions(delivered) # {}
    /\ \E i \in DOMAIN delivered : delivered[i] = ErrItem(ErrPanicRetry)
    /\ vec_result = "err"

\* C17: with stream resumption the consumer sees every part without gap or
\* duplicate: the chunk_index of a chunk is the number of chunks of its part
\* before it, its offset in the part is the number of bytes of the part
\* before it, its bytes are those of the blob at its blob_offset, and
\* bytes_left counts down to the planned length; a download that into_vec
\* ends with Ok has filled the buffer with the bytes of the range, and once
\* all contexts are dropped download_completed was emitted and
\* download_failed was not.
C17_ResumptionWithoutGap ==
    /\ \A i \in ChunkPositions(delivered) :
         LET c == delivered[i].chunk
             before == { j \in PartPositions(delivered, c.part_index) : j < i }
         IN /\ c.chunk_index = Cardinality(before)
            /\ c.range_offset = PartRangeOffset(c.part_index)
                                  + BytesBefore(delivered, c.part_index, i) - Len(c.bytes)
            /\ c.blob_offset = cfg.range_start + c.range_offset
            /\ c.bytes = BlobBytes(c.blob_offset, Len(c.bytes))
            /\ c.bytes_left = PartLen(c.part_index) - BytesBefore(delivered, c.part_index, i)
            /\ c.bytes_left >= 0
    /\ vec_result = "ok" =>
         /\ buffer = RangeBytes
         /\ (\A w \in Workers : pc[w] = "done") =>
                (completed_events >= 1 /\ failed_events = 0)

\* A byte stream failed after it had yielded bytes of its part, the part was
\* resumed, and into_vec ended with Ok and download_completed was emitted.
C17_Witness ==
    /\ \E w \in Workers : resumed_at[w] > 0
    /\ vec_result = "ok"
    /\ completed_events >= 1

\* C18: request retries and stream resumptions of a part share one attempt
\* counter: the adapter is asked at most 1 + max_attempts times for a part,
\* whatever the mix of failed fetches and failed streams, and a failure
\* that is not retried is surfaced: as the error of the fetch when no
\* stream was open, as an error of kind Io on the byte stream otherwise.
C18_SharedAttemptBudget ==
    \A w \in Workers :
        /\ fetches[w] <= 1 + max_attempts
        /\ attempts[w] <= max_attempts
        /\ (last_outcome[w] \in AdapterErrorKinds /\ pc[w] \notin {"fetch", "refetch"}) =>
               err[w] \in {ErrFetch(last_outcome[w]), ErrStream(last_outcome[w])}
        /\ (last_outcome[w] = "stream failed" /\ pc[w] # "refetch") => err[w] = ErrIo
        /\ (last_outcome[w] \in AdapterErrorKinds \cup {"stream failed"}
              /\ pc[w] \notin {"fetch", "refetch"}
              /\ exit_err[w] # NoErr) => exit_err[w] = err[w]

\* One retry allowed: the first fetch of a part failed and was retried, the
\* stream of the retried fetch failed, and with the budget used up the
\* consumer observed the Io error of the stream.
C18_Witness ==
    /\ max_attempts = 1
    /\ \E w \in Workers :
         /\ fetches[w] = 2
         /\ attempts[w] = 1
         /\ resumed_at[w] = -1
         /\ last_outcome[w] = "stream failed"
         /\ exit_err[w] = ErrIo
    /\ \E i \in DOMAIN delivered : delivered[i] = ErrItem(ErrIo)

\* The kinds that are never retried.
TerminalKinds == {"NotFound", "AccessDenied", "InvalidRange"}

\* The size call failed in this step.
SizeCallFailed == size_call.pc = "calling" /\ size_call'.outcome \in AdapterErrorKinds

\* A fetch for worker w failed in this step.
FetchFailed(w) ==
    /\ pc[w] \in {"fetch", "refetch"}
    /\ fetches'[w] = fetches[w] + 1
    /\ last_outcome'[w] \in AdapterErrorKinds

\* C19: a failed size or fetch call is called again iff the kind of its
\* error is Io or Remote and attempts are left; a call that failed with
\* NotFound, AccessDenied or InvalidRange is never called again and its
\* error is surfaced.
C19_RetriedIffTransient ==
    [][ /\ SizeCallFailed =>
             /\ (size_call'.pc = "calling")
                   <=> (size_call'.outcome \in {"Io", "Remote"}
                          /\ size_call.attempts < max_attempts)
             /\ size_call'.outcome \in TerminalKinds => size_call'.pc = "failed"
        /\ \A w \in Workers :
             FetchFailed(w) =>
                 /\ (pc'[w] = pc[w] /\ attempts'[w] = attempts[w] + 1)
                       <=> (last_outcome'[w] \in {"Io", "Remote"}
                              /\ attempts[w] < max_attempts)
                 /\ last_outcome'[w] \in TerminalKinds =>
                       (pc'[w] = "send_err" /\ attempts'[w] = attempts[w])
      ]_vars

\* The first fetch of a part failed with a transient error and was called
\* again; the second call failed with NotFound, which was surfaced to the
\* consumer without another call.
C19_Witness ==
    /\ size_call.pc = "ok"
    /\ \E w \in Workers :
         /\ last_outcome[w] = "NotFound"
         /\ fetches[w] = 2
         /\ attempts[w] = 1
         /\ resumed_at[w] = -1
         /\ exit_err[w] = ErrFetch("NotFound")
    /\ \E i \in DOMAIN delivered : delivered[i] = ErrItem(ErrFetch("NotFound"))

RequestedOffsets ==
    { o \in 0 .. (request.blob_size - 1) :
        CASE request.range.kind = "full" -> TRUE
          [] request.range.kind = "from" -> o >= request.range.a
          [] request.range.kind = "last" -> o + request.range.a >= request.blob_size
          [] OTHER -> request.range.a <= o /\ o <= request.range.b }

\* The size of the BLOB was asked for and the BLOB has none of the bytes
\* asked for: its size is 0 or the range is empty.
NothingToDownload == size_call.pc = "ok" /\ RequestedOffsets = {}

\* C21: if the resolved size of the object is 0 or the requested range is
\* empty, download_range returns an already closed empty ChunkStream: its
\* hint is exactly 0, every poll yields the end of the stream, no
\* worker is started and no fetch is issued.
C21_NothingToDownloadGivesEmptyStream ==
    (HasStream /\ NothingToDownload) =>
        /\ request.phase = "empty"
        /\ is_closed
        /\ bytes_hint = [lower |-> 0, has_upper |-> TRUE, upper |-> 0]
        /\ \A i \in 1 .. Len(delivered) : delivered[i] = Eos
        /\ \A w \in Workers : pc[w] = "unspawned"
        /\ counter = 0
        /\ results = << >>
        /\ first_fetch = NoFetch
        /\ \A w \in Workers : fetches[w] = 0

\* The full object of size 0 was asked for and the stream was polled.
C21_Witness ==
    /\ request.phase = "empty"
    /\ request.range.kind = "full"
    /\ request.blob_size = 0
    /\ delivered = << Eos >>


\* The number of bytes of a closed range [a, b] that lie in a BLOB of the
\* given size.
ClampedLen(a, b, size) == Min(b, size - 1) - a + 1

\* C22: with size mode Always a closed range that ends past the end of the
\* object is cut at the end of the object and the download yields the bytes
\* up to there; a closed range that lies past the end yields the empty
\* stream; with size mode Required the size is asked for only for open and
\* suffix ranges.
C22_SizeModeClampsClosedRange ==
    LET r == request.range
        size == request.blob_size
        always == request.get_size_mode = "Always" /\ r.kind = "closed"
    IN
      /\ (HasStream /\ always /\ r.a < size) =>
            /\ Started
            /\ cfg.range_start = r.a
            /\ RangeEnd = Min(r.b, size - 1)
            /\ is_fresh => bytes_hint = new_exact(ClampedLen(r.a, r.b, size))
            /\ EndedWell =>
                 OrderedBytes(delivered, ChunkPositions(delivered))
                   = BlobBytes(r.a, ClampedLen(r.a, r.b, size))
      /\ (HasStream /\ always /\ r.a >= size) =>
            /\ request.phase = "empty"
            /\ is_closed
            /\ results = << >>
      /\ (request.phase # "new" /\ request.get_size_mode = "Required") =>
            (size_call.pc \in {"ok", "failed"} <=> r.kind # "closed")

\* With size mode Always the range [0, 2] was asked for on an object of 2
\* bytes, and the download ended well with the 2 bytes of the object.
C22_Witness ==
    /\ request.get_size_mode = "Always"
    /\ request.range = [kind |-> "closed", a |-> 0, b |-> MaxReqOffset]
    /\ request.blob_size = MaxBlobSize
    /\ MaxReqOffset >= MaxBlobSize
    /\ EndedWell
    /\ Len(OrderedBytes(delivered, ChunkPositions(delivered))) = MaxBlobSize


\* The step is the call of a whole-stream method.
IsWholeCall == whole_call.called = "none" /\ whole_call'.called # "none"

\* C23: a whole-stream method called on a ChunkStream that was polled at
\* least once while open refuses it: write_buffer and into_vec, whether
\* the hint is exact or not, return "stream already iterated", the
\* conversion into a PartStream fails, and no chunk is consumed by the call
\* or after it.
C23_IteratedStreamRefused ==
    [][ /\ (IsWholeCall /\ delivered # << >>) =>
             /\ vec_result' = "err"
             /\ whole_call'.loop = "none"
             /\ whole_call'.called \in {"write_buffer", "into_vec"} =>
                  whole_call'.error = "stream already iterated"
             /\ n_read' = n_read
             /\ delivered' = delivered
             /\ bytes_hint' = bytes_hint
             /\ buffer' = buffer
        /\ (whole_call.called # "none" /\ whole_call.loop = "none") =>
             /\ n_read' = n_read
             /\ delivered' = delivered
      ]_vars

\* into_vec was called on a stream without an exact hint after one chunk
\* was polled, and has returned the error; a chunk is left on the channel.
C23_Witness ==
    /\ whole_call = Refused("into_vec", "stream already iterated")
    /\ ~is_exact(bytes_hint)
    /\ Len(delivered) = 1
    /\ delivered[1].tag = "chunk"
    /\ n_read < Len(results)
    /\ results[n_read + 1].tag = "chunk"
    /\ vec_result = "err"


\* The chunk at position i of the channel covers index k of the buffer.
Covers(i, k) ==
    /\ results[i].chunk.range_offset < k
    /\ k <= results[i].chunk.range_offset + Len(results[i].chunk.bytes)

\* The chunks on the channel have pairwise disjoint byte ranges.
DisjointChunks ==
    \A i, j \in ChunkPositions(results) :
        i # j => ~ \E k \in 1 .. (MaxChunkOffset + MaxChunkLen) : Covers(i, k) /\ Covers(j, k)

\* The buffer the method started with: the caller's for write_buffer, zeros
\* for into_vec.
StartBuffer ==
    IF whole_call.called = "into_vec" THEN [ k \in 1 .. Len(buffer) |-> 0 ]
    ELSE CallerBuffer(Len(buffer))

\* The buffer with the bytes of every chunk of the channel at its
\* range_offset: it depends on the set of chunks only.
Placed ==
    [ k \in 1 .. Len(buffer) |->
        IF \E i \in ChunkPositions(results) : Covers(i, k)
          THEN LET i == CHOOSE i \in ChunkPositions(results) : Covers(i, k)
               IN results[i].chunk.bytes[k - results[i].chunk.range_offset]
          ELSE StartBuffer[k] ]

\* The sum of the lengths of the chunks of a sequence of items.
RECURSIVE TotalLen(_)
TotalLen(seq) ==
    IF seq = << >> THEN 0
    ELSE (IF Head(seq).tag = "chunk" THEN Len(Head(seq).chunk.bytes) ELSE 0)
           + TotalLen(Tail(seq))

\* C24: write_buffer is a function of the set of chunks received: for
\* chunks with pairwise disjoint byte ranges, in whatever order they
\* arrive, the buffer ends with the bytes of each chunk at its
\* range_offset and the rest untouched, and the count returned is the sum
\* of the lengths of the chunks.
C24_WriteBufferIgnoresArrivalOrder ==
    (whole_call.loop = "write_buffer" /\ vec_result = "ok" /\ DisjointChunks) =>
        /\ buffer = Placed
        /\ whole_call.bytes_written = TotalLen(results)

\* write_buffer has returned Ok for two chunks that arrived in the reverse
\* order of their offsets, with a gap between them.
C24_Witness ==
    /\ whole_call.called = "write_buffer"
    /\ vec_result = "ok"
    /\ Len(results) = 2
    /\ results[1].tag = "chunk"
    /\ results[2].tag = "chunk"
    /\ results[1].chunk.range_offset = 2
    /\ results[2].chunk.range_offset = 0
    /\ Len(results[1].chunk.bytes) = 1
    /\ Len(results[2].chunk.bytes) = 1
    /\ whole_call.bytes_written = 2
    /\ buffer = << 17, 202, 25 >>


\* The step takes from the channel a chunk that does not fit the buffer of
\* write_buffer.
TakesOversizedChunk ==
    /\ whole_call.loop = "write_buffer"
    /\ n_read' = n_read + 1
    /\ results[n_read + 1].tag = "chunk"
    /\ results[n_read + 1].chunk.range_offset + Len(results[n_read + 1].chunk.bytes)
         > Len(buffer)

\* C25: write_buffer does not corrupt the buffer on a bounds error. A
\* buffer shorter than the lower bound of the hint is refused before any
\* chunk is consumed and is left as it was; a chunk that reaches past the
\* end of the buffer ends write_buffer with an error and none of its
\* bytes is written; the buffer never changes its length and is not
\* written to after an error.
C25_BoundsErrorKeepsBuffer ==
    [][ /\ ( /\ IsWholeCall
             /\ whole_call'.called = "write_buffer"
             /\ is_fresh
             /\ Len(buffer) < bytes_hint.lower ) =>
               /\ vec_result' = "err"
               /\ whole_call' = Refused("write_buffer", "buffer to small")
               /\ buffer' = buffer
               /\ n_read' = n_read
               /\ delivered' = delivered
        /\ TakesOversizedChunk =>
               /\ vec_result' = "err"
               /\ whole_call'.error = "write attempt beyond buffer end"
               /\ buffer' = buffer
        /\ whole_call'.called = "write_buffer" => Len(buffer') = Len(buffer)
        /\ (whole_call.called = "write_buffer" /\ vec_result = "err") => buffer' = buffer
      ]_vars

\* write_buffer has written a first chunk and failed on a second one, of
\* which one byte would have fit; the buffer holds the first chunk only.
C25_Witness ==
    /\ whole_call.called = "write_buffer"
    /\ whole_call.error = "write attempt beyond buffer end"
    /\ vec_result = "err"
    /\ Len(delivered) = 2
    /\ delivered[1].chunk.range_offset = 0
    /\ Len(delivered[1].chunk.bytes) = 1
    /\ delivered[2].chunk.range_offset = 1
    /\ Len(delivered[2].chunk.bytes) = 2
    /\ buffer = << 17, 202 >>


\* C26: the ChunkStream of a download is created with the exact hint of the
\* bytes of the range; after the consumer has received chunks of k bytes in
\* total and no error, bytes_hint() is exactly the bytes of the range less
\* k; once an error item is received the stream is closed and the hint is
\* exactly 0.
C26_HintCountsRemainingBytes ==
    /\ ErrorCount(delivered) = 0 =>
         bytes_hint = [ lower |-> cfg.range_len - TotalLen(delivered),
                        has_upper |-> TRUE,
                        upper |-> cfg.range_len - TotalLen(delivered) ]
    /\ ErrorCount(delivered) > 0 =>
         /\ is_closed
         /\ bytes_hint = [lower |-> 0, has_upper |-> TRUE, upper |-> 0]

\* The consumer has received two chunks of one byte each and the hint is
\* exactly the bytes that are left.
C26_Witness ==
    /\ Len(delivered) = 2
    /\ delivered[1].tag = "chunk"
    /\ delivered[2].tag = "chunk"
    /\ TotalLen(delivered) = 2
    /\ cfg.range_len > 2
    /\ bytes_hint = [lower |-> cfg.range_len - 2, has_upper |-> TRUE,
                     upper |-> cfg.range_len - 2]


\* The step takes a chunk from the channel: poll_next calls
\* reduce_by(chunk.len()).
TakesChunk == n_read' = n_read + 1 /\ results[n_read + 1].tag = "chunk"

\* C27: reduce_by(n) does not underflow, whatever the bounds and n: the
\* lower bound becomes lower - n, or 0 if n is larger; a known upper bound
\* becomes upper - n when n <= upper and unknown when n > upper; an
\* unknown upper bound stays unknown; lower <= upper still holds when it
\* held before and the upper bound is still known.
C27_ReduceBySaturates ==
    [][ TakesChunk =>
          LET n == Len(results[n_read + 1].chunk.bytes)
              before == bytes_hint
              after == bytes_hint'
          IN
            /\ after.lower = IF before.lower >= n THEN before.lower - n ELSE 0
            /\ (before.has_upper /\ n <= before.upper) =>
                 (after.has_upper /\ after.upper = before.upper - n)
            /\ (before.has_upper /\ n > before.upper) => ~after.has_upper
            /\ ~before.has_upper => ~after.has_upper
            /\ (before.has_upper /\ before.lower <= before.upper /\ after.has_upper) =>
                 after.lower <= after.upper
            /\ after.lower \in 0 .. before.lower
            /\ after.has_upper => after.upper \in 0 .. before.upper
      ]_vars

\* A chunk of 2 bytes and then a chunk of 1 byte were taken from the
\* stream, and its hint is now exactly 0.
C27_Witness ==
    /\ Len(delivered) = 2
    /\ delivered[1].tag = "chunk"
    /\ delivered[2].tag = "chunk"
    /\ Len(delivered[1].chunk.bytes) = 2
    /\ Len(delivered[2].chunk.bytes) = 1
    /\ bytes_hint = [lower |-> 0, has_upper |-> TRUE, upper |-> 0]


\* C28: the dispatcher reports queue_full (and sleeps) only after it has
\* tried every worker in one full cycle for the request it holds and found
\* every queue full, and never while a worker it has not tried has room.
C28_QueueFullOnlyAfterFullCycle ==
    lap.report.made =>
        /\ lap.report.tried = Workers
        /\ lap.report.room = {}


\* The bytes of the chunks the workers have produced and the PartStream has
\* not emitted: they wait on the result channel or in the PartStream.
BytesNotEmitted == TotalLen(results) - Len(ConcatBytes(PartStreamOut))

\* C29: while a download is consumed through a PartStream, the bytes of the
\* chunks produced by the workers for parts that were not yet emitted never
\* exceed max_concurrency * part_size_bytes.
C29_BufferedBytesBounded == BytesNotEmitted <= cfg.n_concurrent * cfg.part_size


\* The step is worker w putting an error item on the result channel.
PushesError(w) ==
    /\ pc'[w] # pc[w]
    /\ Len(results') = Len(results) + 1
    /\ results'[Len(results')].tag = "err"

\* C30: a worker pushes at most one error item into the result channel
\* over its lifetime, whatever way it exits: it pushes an error only if it
\* has sent none before, once it has sent one (by send_err or from the
\* drop of its context) it sends no other, and the channel never holds
\* more error items than there are workers that have sent one.
C30_AtMostOneErrorPerWorker ==
    [][ /\ \A w \in Workers :
             /\ PushesError(w) =>
                  /\ exit_err[w] = NoErr
                  /\ exit_err'[w] = results'[Len(results')].error
             /\ exit_err[w] # NoErr => exit_err'[w] = exit_err[w]
        /\ ErrorCount(results') <= Cardinality({ w \in Workers : exit_err'[w] # NoErr })
      ]_vars

\* A worker has sent an I/O error by send_err, its context is dropped and
\* the channel holds that one error.
C30_Witness ==
    /\ \E w \in Workers : pc[w] = "done" /\ exit_err[w] = ErrIo /\ completed[w]
    /\ SendersGone
    /\ ErrorCount(results) = 1


\* The events the probe has been given for part p.
EventsOf(p) == IF p \in DOMAIN probe THEN probe[p] ELSE NoEvents

\* download_completed or download_failed was emitted.
TerminalEmitted == completed_events + failed_events > 0

\* The step emits a terminal event.
EmitsTerminal == completed_events' + failed_events' > completed_events + failed_events

\* C31: the terminal event is emitted only once the counter of live contexts
\* is 0, when every worker has finished its work and decremented the
\* counter; after a terminal event was emitted no part_started,
\* chunk_completed, part_completed or part_failed is reported and no chunk
\* or error is pushed into the result channel.
C31_NothingAfterTerminalEvent ==
    [][ /\ EmitsTerminal =>
            /\ counter = 0
            /\ \A w \in Workers : pc[w] \in {"drop_load", "done"}
        /\ TerminalEmitted => (probe' = probe /\ results' = results) ]_vars

\* Two workers have downloaded every part, download_completed was emitted
\* and the worker that exited first has yet to load the counter.
C31_Witness ==
    /\ cfg.n_concurrent = 2
    /\ completed_events = 1
    /\ \A p \in 0 .. (NParts - 1) : EventsOf(p).completed = 1
    /\ \E w \in Workers : pc[w] = "drop_load"


\* The error worker w is about to send, or has sent, is one of the two
\* errors of the byte accounting.
ByteCountError(w) == err[w] \in {ErrTooMany, ErrWrongCount}

\* Worker w neither waits for a request nor works on one.
Exiting(w) == pc[w] \notin {"recv", "check", "fetch", "stream"}

\* C32: a buffer that takes the bytes received for a part beyond the length
\* of the part yields no chunk, and the error is "received more bytes than
\* expected"; a byte stream that ends before the length of the part is
\* reached yields the error "received wrong number of bytes". In both cases
\* part_failed is reported, the error is put on the result channel (if the
\* receiver still takes items), the Kill Switch is armed when the worker
\* exits, and the worker takes no further request and makes no further
\* fetch.
C32_ByteAccounting ==
    [][ \A w \in Workers :
          /\ (pc[w] = "stream" /\ bytes_received'[w] > bytes_expected(w)) =>
                /\ results' = results
                /\ err'[w] = ErrTooMany
                /\ pc'[w] = "send_err"
                /\ probe' = part_failed(probe, req[w])
          /\ (WorkerStreamEnd(w) /\ bytes_received[w] < bytes_expected(w)) =>
                /\ results' = results
                /\ err'[w] = ErrWrongCount
                /\ pc'[w] = "send_err"
                /\ EventsOf(req[w])'.failed = EventsOf(req[w]).failed + 1
          /\ ByteCountError(w) =>
                /\ Exiting(w)'
                /\ req'[w] = req[w]
                /\ fetches'[w] = fetches[w]
                /\ (pc[w] = "send_err" /\ pc'[w] # "send_err" /\ CanSend) =>
                      results' = Append(results, ErrItem(err[w]))
                /\ pc'[w] \in {"drop", "drop_dec", "drop_load", "done"} => kill_switch' ]_vars

\* A worker has sent one chunk of a part, has then received more bytes than
\* the part has, has put "received more bytes than expected" on the result
\* channel and is done, with requests left in its queue.
C32_Witness ==
    \E w \in Workers :
        /\ pc[w] = "done"
        /\ exit_err[w] = ErrTooMany
        /\ \E i \in DOMAIN results : results[i] = ErrItem(ErrTooMany)
        /\ EventsOf(req[w]).chunks = 1
        /\ EventsOf(req[w]).failed = 1
        /\ queue[w] # << >>


\* C33: when the worker the dispatcher tries is gone, the dispatcher arms
\* the Kill Switch and download() returns an error without enqueueing the
\* request it holds; after that it pulls no request from the planner and no
\* queue of any worker accepts a request.
C33_GoneWorkerStopsDispatcher ==
    [][ /\ (DispatcherEnqueue /\ ~receiver_alive[TargetIdx]) =>
              /\ kill_switch'
              /\ disp_result' = "err"
              /\ disp_pc' = "dropped"
              /\ next_part' = next_part
              /\ queue' = queue
        /\ disp_result = "err" =>
              /\ disp_result' = "err"
              /\ next_part' = next_part
              /\ accepted' = accepted
              /\ \A w \in Workers : Len(queue'[w]) <= Len(queue[w]) ]_vars

\* The dispatcher has found a worker gone whose task has panicked and whose
\* context has not armed the Kill Switch yet: the dispatcher has armed it
\* and has returned the error, with parts left at the planner.
C33_Witness ==
    /\ disp_result = "err"
    /\ kill_switch
    /\ next_part < NParts
    /\ \E w \in Workers : panicking[w] /\ pc[w] = "drop"


\* The part requests accepted by the queues of the workers.
AcceptedParts == UNION { { accepted[w][i] : i \in DOMAIN accepted[w] } : w \in Workers }

\* The request the dispatcher has pulled and no queue has accepted: the one
\* it is trying to enqueue, or the one it held when it found a worker gone.
Held == IF disp_pc = "loop" \/ disp_result = "err" THEN {range_request} ELSE {}

\* Every part pulled from the planner and not held was accepted by exactly
\* one queue exactly once, and the parts were pulled in the order of their
\* index.
EveryPartAcceptedOnce ==
    /\ \A w1, w2 \in Workers : \A i \in DOMAIN accepted[w1] : \A j \in DOMAIN accepted[w2] :
          accepted[w1][i] = accepted[w2][j] => (w1 = w2 /\ i = j)
    /\ AcceptedParts = (0 .. (next_part - 1)) \ Held
    /\ Held # {} => range_request = next_part - 1
    /\ \A w \in Workers : \A i, j \in DOMAIN accepted[w] :
          i < j => accepted[w][i] < accepted[w][j]

\* C34: the dispatcher neither loses nor duplicates a part request. An
\* enqueue attempt is always a step that can be taken; a queue that is full
\* hands the request back as it was and the dispatcher keeps it; and every
\* part pulled from the planner, the parts being pulled in the order of
\* their index, is accepted by exactly one worker exactly once, but for the
\* request the dispatcher holds.
C34_NoPartLostOrDuplicated ==
    [][ /\ EveryPartAcceptedOnce'
        /\ disp_pc = "loop" => ENABLED DispatcherEnqueue
        /\ (DispatcherEnqueue /\ receiver_alive[TargetIdx]
               /\ Len(queue[TargetIdx]) >= QueueCapacity) =>
              /\ range_request' = range_request
              /\ disp_pc' = "loop"
              /\ next_part' = next_part
              /\ queue' = queue
        /\ (disp_result = "none" /\ disp_result' = "ok") =>
              AcceptedParts' = 0 .. (NParts - 1) ]_vars

\* The last part was handed back by a full queue at least once, was then
\* accepted, and download() has returned Ok with every part accepted.
C34_Witness ==
    /\ disp_result = "ok"
    /\ attempt > 1
    /\ NParts > 1
    /\ AcceptedParts = 0 .. (NParts - 1)


\* The workers with a fetch in flight: a request to the adapter awaiting its
\* response, or a byte stream still being read.
InFlight == { w \in Workers : pc[w] \in {"fetch", "stream"} }

\* The number of requests worker w has taken from its queue.
Taken(w) == Len(accepted[w]) - Len(queue[w])

\* C35: at most max_concurrency fetches are in flight. As many contexts as
\* workers are counted, a worker takes a request only while it has no fetch
\* in flight, the request it takes is the oldest one its queue has accepted
\* and not yet handed out, and it starts a fetch only for the request it
\* has just taken.
C35_OneFetchPerWorkerInOrder ==
    [][ /\ Cardinality(InFlight) <= cfg.n_concurrent
        /\ counter <= cfg.n_concurrent
        /\ \A w \in Workers :
              /\ (queue'[w] # queue[w] /\ Len(queue'[w]) < Len(queue[w])) =>
                    /\ w \notin InFlight
                    /\ pc[w] = "recv"
                    /\ Taken(w)' = Taken(w) + 1
                    /\ req'[w] = accepted[w][Taken(w) + 1]
              /\ req'[w] # req[w] => Len(queue'[w]) < Len(queue[w])
              /\ (pc'[w] = "fetch" /\ pc[w] # "fetch") => pc[w] = "check" ]_vars

\* Both workers have a fetch in flight, one of them for the second request
\* of its queue after it has completed the first.
C35_Witness ==
    /\ Cardinality(InFlight) = 2
    /\ \E w \in Workers :
          /\ Len(accepted[w]) = 2
          /\ req[w] = accepted[w][2]
          /\ pc[w] = "stream"
          /\ EventsOf(accepted[w][1]).completed = 1


\* C36: for no part the probe receives both part_completed and
\* part_failed, whatever the byte stream of the part does (complete, too
\* many bytes, too few bytes, I/O error).
C36_CompletedXorFailed ==
    \A p \in DOMAIN probe : ~(probe[p].completed > 0 /\ probe[p].failed > 0)


\* C37: once poll_next has returned anything on a ChunkStream, open or
\* closed, the stream is not fresh.
C37_PolledStreamIsNotFresh == delivered # << >> => ~is_fresh


\* A worker of the Downloader variant has failed: its watcher is marked.
WatcherFailed == \E w \in Workers : is_failed[w]

\* C38: in the Downloader/DownloadersWatcher variant, once a worker has
\* failed and marked its watcher, download_completed is never emitted,
\* whichever watcher is dropped last.
C38_FailedWorkerNeverCompleted == WatcherFailed => completed_events = 0

\* C39: every download operation of a DownloadSession reports to exactly one
\* reporter made by the ReporterFactory, so that each event of the download
\* reaches a factory-made reporter exactly once.
C39_OneFactoryReporterPerCall == SessionCalled => FactoryMade(session.reporter) = 1

\* The stream was consumed to its end and yielded no error.
ConsumedWithoutError ==
    /\ delivered # << >>
    /\ delivered[Len(delivered)] = Eos
    /\ ErrorCount(delivered) = 0

\* The number of bytes of the chunks delivered before item i.
LenBefore(i) == TotalLen(SubSeq(delivered, 1, i - 1))

\* C40: with a single worker the chunks of a successful download arrive in
\* range order: the range_offset of each delivered chunk is the sum of the
\* lengths of the chunks delivered before it, its blob_offset is the start
\* of the range plus that sum, and the lengths of all chunks add up to the
\* length of the range.
C40_SingleWorkerDeliversInRangeOrder ==
    (cfg.n_concurrent = 1 /\ ConsumedWithoutError) =>
        /\ \A i \in ChunkPositions(delivered) :
             /\ delivered[i].chunk.range_offset = LenBefore(i)
             /\ delivered[i].chunk.blob_offset = cfg.range_start + LenBefore(i)
        /\ TotalLen(delivered) = cfg.range_len

\* A single worker has delivered a range longer than one part without
\* error, one part in more than one chunk.
C40_Witness ==
    /\ cfg.n_concurrent = 1
    /\ ConsumedWithoutError
    /\ cfg.range_len > cfg.part_size
    /\ \E i \in ChunkPositions(delivered) : delivered[i].chunk.chunk_index > 0
    /\ \E i \in ChunkPositions(delivered) : delivered[i].chunk.part_index > 0
====
